---- MODULE Spec2Model ----
(***************************************************************************)
(* Model of the adaptive retrieval and ranking engine of bmichatv3:        *)
(* the QA-aware chunker (app/services/qa_chunker.py), the vector index     *)
(* adapter (app/services/vector_service.py), the re-ranker                 *)
(* (app/services/reranking_service.py) and the retrieval orchestrator      *)
(* (app/services/retrieval_service.py).                                    *)
(*                                                                         *)
(* Scores are fixed-point numbers in thousandths: 1000 stands for 1.0;     *)
(* the scores of the hybrid merge are floats (see Fl).                     *)
(***************************************************************************)
EXTENDS Integers, Sequences, FiniteSets, TLC

VARIABLES
    text_content,   \* chunker: the text handed to chunk_document (a sequence of lines)
    chunks,         \* chunker: the list chunk_document returned
    chunked,        \* chunker: TRUE once chunk_document has run
    model,          \* ReRankingService.model: "none" until the cross-encoder is loaded
    call,           \* retrieval: the operation in progress and its arguments
    pc,             \* retrieval: where the operation in progress stands
    attempts,       \* retrieval: the retrieval attempts the call has made so far
    ret,            \* retrieval: what the call returned, or that it raised
    fetched,        \* what the index queries of the call returned, scored
    provider_calls, \* embedding: the provider calls of the generate_embeddings request
                    \* in progress, or of the last one that gave up
    max_history_size,   \* metrics: the capacity MetricsService was constructed with
    retrieval_history,  \* metrics: MetricsService.retrieval_history
    utcnow,             \* metrics: the clock, in hours
    calls,              \* metrics: the number of record_retrieval calls made so far
    metrics,            \* metrics: what the last get_..._metrics call returned
    task,               \* requests: the chat requests in progress, each with its position
    document,           \* documents: the row of the uploaded document and its file on disk
    vector_index,       \* documents: the chunks of the document held by the vector index
    processing          \* documents: the background processing tasks created so far

vars == <<text_content, chunks, chunked, model, call, pc, attempts, ret, fetched, provider_calls,
         max_history_size, retrieval_history, utcnow, calls, metrics, task,
         document, vector_index, processing>>

chunkerVars == <<text_content, chunks, chunked>>
retrievalVars == <<model, call, pc, attempts, ret, fetched, provider_calls>>
serviceVars == <<max_history_size, retrieval_history, utcnow, calls, metrics, task>>
documentVars == <<document, vector_index, processing>>

---------------------------------------------------------------------------
(* Bounds of the model *)

MaxLines == 4       \* lines of a text handed to chunk_document
MaxRaw == 3         \* neighbours the external index returns for one query
MaxK == 2           \* the k a caller requests

---------------------------------------------------------------------------
(* Generic helpers *)

Min(a, b) == IF a < b THEN a ELSE b
Max(a, b) == IF a > b THEN a ELSE b

\* Python slice s[:n] for n >= 0
Take(s, n) == SubSeq(s, 1, Min(n, Len(s)))

RECURSIVE SeqSum(_)
SeqSum(s) == IF s = <<>> THEN 0 ELSE Head(s) + SeqSum(Tail(s))

\* list.sort(key=..., reverse=True): a stable sort of s, descending by key,
\* where key[i] is the key of s[i].  Insertion keeps a position behind every
\* earlier position of an equal key.
SortDesc(s, key) ==
    LET RECURSIVE InsertDesc(_, _)
        InsertDesc(i, t) ==
            IF t = <<>> THEN <<i>>
            ELSE IF key[Head(t)] >= key[i]
                 THEN <<Head(t)>> \o InsertDesc(i, Tail(t))
                 ELSE <<i>> \o t
        RECURSIVE Sorted(_)
        Sorted(n) == IF n = 0 THEN <<>> ELSE InsertDesc(n, Sorted(n - 1))
        order == Sorted(Len(s))
    IN [j \in 1..Len(s) |-> s[order[j]]]

---------------------------------------------------------------------------
(* QA-aware chunker: app/services/qa_chunker.py *)

qa_delimiter == "---QA---"
chunk_size == 4000
min_chunk_size == 100
StandaloneMinLen == 50

\* A line of text after line.strip(): its first and last character and its
\* length.  "R" and "A" are the letters the answer patterns start with, "Q"
\* the letter the first two question patterns start with; the patterns are
\* matched with re.IGNORECASE, so a character stands for both of its cases.
TextLine(first, last, len) == [kind |-> "text", first |-> first, last |-> last, len |-> len]
DelimLine == [kind |-> "delim", first |-> "-", last |-> "-", len |-> 8]
BlankLine == [kind |-> "blank", first |-> " ", last |-> " ", len |-> 0]

Lines ==
    { TextLine("Q", "x", 12),     \* "Q: What is X"
      TextLine("Q", "?", 13),     \* "Q: What is X?"
      TextLine("x", "?", 20),     \* "What is the fee?"
      TextLine("R", "x", 10),     \* "R: X is Y."
      TextLine("A", "?", 11),     \* "Are you ok?": question and answer pattern
      TextLine("x", "x", 30),     \* plain short line
      TextLine("x", "x", 60),     \* plain line longer than 50 characters
      TextLine("Q", "Q", 1),      \* the single letter "Q"
      DelimLine,
      BlankLine }

RECURSIVE SeqsUpTo(_, _)
SeqsUpTo(S, n) ==
    IF n = 0 THEN {<<>>}
    ELSE LET shorter == SeqsUpTo(S, n - 1)
         IN shorter \cup {Append(s, x) : s \in {t \in shorter : Len(t) = n - 1}, x \in S}

Texts == SeqsUpTo(Lines, MaxLines)

\* question_patterns, matched with re.match on the stripped line.
\*   ^Q\s*[:.]?\s*(.+?)$ : "Q" and at least one more character
QuestionPatternQ(line) == line.kind = "text" /\ line.first = "Q" /\ line.len >= 2
\*   ^(.+?\?)$ : at least one character and a final "?"
QuestionPatternDirect(line) == line.kind = "text" /\ line.last = "?" /\ line.len >= 2
\* The other five patterns (Question..., N. ...?, Comment ...?, Que ...?,
\* Pourquoi ...?) match only lines one of these two already matches.
_is_question_line(line) == QuestionPatternQ(line) \/ QuestionPatternDirect(line)

\* answer_patterns: ^R\s*[:.]?\s*(.+?)$ and ^A\s*[:.]?\s*(.+?)$ ; "Answer..."
\* and "Réponse..." start with the same letters.
AnswerPatternR(line) == line.kind = "text" /\ line.first = "R" /\ line.len >= 2
AnswerPatternA(line) == line.kind = "text" /\ line.first = "A" /\ line.len >= 2
_is_answer_line(line) == AnswerPatternR(line) \/ AnswerPatternA(line)

NonBlank(line) == line.kind # "blank"

\* question_count and answer_count of _has_qa_format
question_count(text) == Len(SelectSeq(text, _is_question_line))
answer_count(text) == Len(SelectSeq(text, _is_answer_line))

HasDelimiter(text) == \E i \in 1..Len(text) : text[i].kind = "delim"

\* QAChunker._has_qa_format
_has_qa_format(text) ==
    \/ HasDelimiter(text)
    \/ question_count(text) >= 2 /\ answer_count(text) >= 2

\* len of "\n".join(lines) / " ".join(lines)
JoinedLen(ls) == IF ls = <<>> THEN 0 ELSE SeqSum([i \in 1..Len(ls) |-> ls[i].len]) + Len(ls) - 1

Chunk(type, ls, len) == [chunk_type |-> type, lines |-> ls, length |-> len]

\* QAChunker._create_qa_chunk on f"{current_question}\n{' '.join(current_answer)}"
_create_qa_chunk(question, answer) ==
    Chunk("qa_pair", <<question>> \o answer, question.len + 1 + JoinedLen(answer))

\* One iteration of the loop of QAChunker._extract_qa_pairs.  st.q is <<>>
\* for current_question = None and <<line>> otherwise.
ExtractStep(st, line) ==
    IF ~NonBlank(line) THEN st
    ELSE IF _is_question_line(line)
    THEN [out |-> IF st.q # <<>> /\ st.a # <<>>
                  THEN Append(st.out, _create_qa_chunk(st.q[1], st.a))
                  ELSE st.out,
          q |-> <<line>>, a |-> <<>>]
    ELSE IF _is_answer_line(line)
    THEN [st EXCEPT !.a = <<line>>]
    ELSE IF st.q # <<>>
    THEN [st EXCEPT !.a = Append(st.a, line)]
    ELSE IF line.len > StandaloneMinLen
    THEN [st EXCEPT !.out = Append(st.out, Chunk("regular", <<line>>, line.len))]
    ELSE st

RECURSIVE ExtractLoop(_, _)
ExtractLoop(st, ls) ==
    IF ls = <<>> THEN st ELSE ExtractLoop(ExtractStep(st, Head(ls)), Tail(ls))

\* _extract_qa_pairs without the flush of the last pair after the loop
_extract_qa_pairs_unflushed(ls) ==
    ExtractLoop([out |-> <<>>, q |-> <<>>, a |-> <<>>], ls).out

\* QAChunker._extract_qa_pairs
_extract_qa_pairs(ls) ==
    LET st == ExtractLoop([out |-> <<>>, q |-> <<>>, a |-> <<>>], ls)
    IN IF st.q # <<>> /\ st.a # <<>>
       THEN Append(st.out, _create_qa_chunk(st.q[1], st.a))
       ELSE st.out

\* text.split(self.qa_delimiter): the sections between delimiter lines
RECURSIVE SplitSections(_, _)
SplitSections(ls, cur) ==
    IF ls = <<>> THEN <<cur>>
    ELSE IF Head(ls).kind = "delim"
         THEN <<cur>> \o SplitSections(Tail(ls), <<>>)
         ELSE SplitSections(Tail(ls), Append(cur, Head(ls)))

\* section.strip(): the lines without leading and trailing blank lines
RECURSIVE StripLeft(_)
StripLeft(ls) == IF ls # <<>> /\ ~NonBlank(Head(ls)) THEN StripLeft(Tail(ls)) ELSE ls
RECURSIVE StripRight(_)
StripRight(ls) ==
    IF ls # <<>> /\ ~NonBlank(ls[Len(ls)]) THEN StripRight(SubSeq(ls, 1, Len(ls) - 1)) ELSE ls
Strip(ls) == StripRight(StripLeft(ls))

\* RecursiveCharacterTextSplitter.split_text on a text no longer than
\* chunk_size: the stripped text as one piece, nothing for an empty text.
SplitText(ls) == IF Strip(ls) = <<>> THEN <<>> ELSE <<Strip(ls)>>

\* QAChunker._chunk_regular_content
_chunk_regular_content(ls) ==
    [i \in 1..Len(SplitText(ls)) |->
        Chunk("regular", SplitText(ls)[i], JoinedLen(SplitText(ls)[i]))]

\* QAChunker._process_intro_section
_process_intro_section(ls) ==
    IF JoinedLen(ls) <= chunk_size
    THEN <<Chunk("header", ls, JoinedLen(ls))>>
    ELSE _chunk_regular_content(ls)

\* QAChunker._chunk_qa_content
RECURSIVE QaSections(_, _)
QaSections(sections, i) ==
    IF i > Len(sections) THEN <<>>
    ELSE (IF Strip(sections[i]) = <<>> THEN <<>>
          ELSE IF i = 1 THEN _process_intro_section(Strip(sections[i]))
          ELSE _extract_qa_pairs(Strip(sections[i])))
         \o QaSections(sections, i + 1)

_chunk_qa_content(text) ==
    IF HasDelimiter(text)
    THEN QaSections(SplitSections(text, <<>>), 1)
    ELSE _extract_qa_pairs(text)

\* QAChunker._apply_semantic_overlap: a list of at most one piece is returned as it is
_apply_semantic_overlap(pieces) == pieces

\* QAChunker._chunk_regular_content_enhanced
LongEnough(piece) == JoinedLen(piece) >= min_chunk_size
_chunk_regular_content_enhanced(text) ==
    LET kept == SelectSeq(_apply_semantic_overlap(SplitText(text)), LongEnough)
    IN [i \in 1..Len(kept) |-> Chunk("regular", kept[i], JoinedLen(kept[i]))]

\* QAChunker.chunk_document
chunk_document(text) ==
    IF Strip(text) = <<>> THEN <<>>
    ELSE IF _has_qa_format(text) THEN _chunk_qa_content(text)
    ELSE _chunk_regular_content_enhanced(text)

---------------------------------------------------------------------------
(* Vector index adapter: app/services/vector_service.py *)

default_retrieval_k == 5
max_retrieval_k == 10
MaxSearchK == 50

\* What the index stores for a chunk: the metadata written at indexing time
\* and the text, of which the model keeps the length (len), the number of
\* leading and trailing whitespace characters (pad) and the number of
\* alphabetic or whitespace characters (alpha).
Meta(type, hq, ha, conf) ==
    [chunk_type |-> type, has_questions |-> hq, has_answers |-> ha, confidence_score |-> conf]
Content(len, pad, alpha) == [len |-> len, pad |-> pad, alpha |-> alpha]

\* A neighbour as the external index reports it, without its id
Neighbour(d, meta, content) == [distance |-> d, metadata |-> meta, content |-> content]

Neighbours ==
    { Neighbour(50, Meta("regular", FALSE, FALSE, 1000), Content(600, 0, 550)),
      Neighbour(50, Meta("qa_pair", TRUE, TRUE, 900), Content(30, 0, 28)),
      Neighbour(400, Meta("regular", TRUE, FALSE, 500), Content(60, 0, 55)),
      Neighbour(900, Meta("regular", FALSE, FALSE, 1000), Content(200, 0, 80)),
      Neighbour(1500, Meta("regular", FALSE, TRUE, 1000), Content(120, 0, 100)) }

WithId(n, id) ==
    [id |-> id, distance |-> n.distance, metadata |-> n.metadata, content |-> n.content]

\* collection.query(n_results=n): at most n neighbours, nearest first, each
\* with its own id.
RawResults(n) ==
    { [i \in 1..Len(s) |-> WithId(s[i], i)] :
        s \in { t \in SeqsUpTo(Neighbours, Min(n, MaxRaw)) :
                  \A i \in 1..(Len(t) - 1) : t[i].distance <= t[i + 1].distance } }

\* collection.query(n_results=n) on an index that holds LargeK chunks, each
\* farther from the query than the one before
LargeK == max_retrieval_k + 1

LargeIndexResults(n) ==
    { [i \in 1..Min(n, LargeK) |->
          WithId(Neighbour(50 * i, Meta("regular", FALSE, FALSE, 1000), Content(600, 0, 550)), i)] }

\* k = k or settings.default_retrieval_k
KOrDefault(k) == IF k = 0 THEN default_retrieval_k ELSE k

\* VectorService._calculate_ranking_factors
_calculate_ranking_factors(content, metadata, boost_qa_pairs) ==
    [ qa_boost |-> IF boost_qa_pairs /\ metadata.chunk_type = "qa_pair" THEN 150 ELSE 0,
      qa_completeness |->
          IF metadata.has_questions /\ metadata.has_answers THEN 100
          ELSE IF metadata.has_questions \/ metadata.has_answers THEN 50
          ELSE 0,
      length_factor |->
          IF 500 <= content.len /\ content.len <= 2000 THEN 50
          ELSE IF content.len < 100 THEN -100
          ELSE 0,
      confidence_factor |-> (metadata.confidence_score - 1000) \div 10,
      recency_factor |-> 0 ]

\* VectorService._calculate_final_score
_calculate_final_score(similarity_score, f) ==
    Max(0, Min(1000, similarity_score + f.qa_boost + f.qa_completeness + f.length_factor
                        + f.confidence_factor + f.recency_factor))

EmptyResults == [chunks |-> <<>>, distances |-> <<>>, metadata |-> <<>>, ids |-> <<>>, scores |-> <<>>]

\* VectorService._enhance_and_rank_results
_enhance_and_rank_results(raw, final_k, boost_qa_pairs) ==
    IF raw = <<>> THEN EmptyResults
    ELSE
      LET enhanced == [i \in 1..Len(raw) |->
                [chunk |-> raw[i].content,
                 distance |-> raw[i].distance,
                 metadata |-> raw[i].metadata,
                 id |-> raw[i].id,
                 final_score |-> _calculate_final_score(1000 - raw[i].distance,
                     _calculate_ranking_factors(raw[i].content, raw[i].metadata, boost_qa_pairs))]]
          top == Take(SortDesc(enhanced, [i \in 1..Len(enhanced) |-> enhanced[i].final_score]),
                      final_k)
      IN [chunks |-> [i \in 1..Len(top) |-> top[i].chunk],
          distances |-> [i \in 1..Len(top) |-> top[i].distance],
          metadata |-> [i \in 1..Len(top) |-> top[i].metadata],
          ids |-> [i \in 1..Len(top) |-> top[i].id],
          scores |-> [i \in 1..Len(top) |-> top[i].final_score]]

\* search_k as twice the capped k
SearchFetchSizeDoubled(k) == Min(Min(KOrDefault(k), max_retrieval_k) * 2, MaxSearchK)

\* VectorService.search_similar_chunks: the number of neighbours it asks the
\* index for, and its result for the neighbours the index returned
SearchFetchSize(k) == Min(Min(KOrDefault(k), max_retrieval_k) * 3, MaxSearchK)

\* search_similar_chunks handing search_k instead of k to the ranking step
search_similar_chunks_uncut(raw, k, boost_qa_pairs) ==
    _enhance_and_rank_results(raw, SearchFetchSize(k), boost_qa_pairs)

search_similar_chunks(raw, k, boost_qa_pairs) ==
    _enhance_and_rank_results(raw, Min(KOrDefault(k), max_retrieval_k), boost_qa_pairs)

---------------------------------------------------------------------------
(* Re-ranker: app/services/reranking_service.py *)

similarity_weight == 3     \* 0.3, in tenths
rerank_weight == 7         \* 0.7, in tenths
NeutralScore == 5          \* 0.5, in tenths: what _compute_rerank_scores returns on failure

\* Raw cross-encoder outputs, in tenths (unbounded, possibly negative)
RawScores == {-80, 80}

\* 1 / (1 + exp(-x)) in thousandths, for x in tenths
Sigmoid(x) ==
    CASE x <= -80 -> 0
      [] x = -20 -> 119
      [] x = 0 -> 500
      [] x = 5 -> 622
      [] x = 20 -> 881
      [] x >= 80 -> 1000
      [] OTHER -> 500

\* What the cross-encoder does when asked to score n pairs: it returns n
\* scores, it raises, or it returns values _combine_scores cannot handle.
ScorerOutcomes(n) ==
    { [kind |-> "scores", scores |-> sc] : sc \in [1..n -> RawScores] }
    \cup { [kind |-> "raised", scores |-> <<>>], [kind |-> "malformed", scores |-> <<>>] }

\* A chunk as RetrievalService._process_search_results builds it; the
\* re-ranker fills in the last four fields.
EnhancedChunk(id, content, score, distance, metadata) ==
    [id |-> id, content |-> content, score |-> score, distance |-> distance,
     metadata |-> metadata, reranked |-> FALSE,
     rerank_score |-> 0, original_score |-> 0, combined_score |-> 0]

\* ReRankingService._compute_rerank_scores
_compute_rerank_scores(n, scorer) ==
    IF scorer.kind = "raised" THEN [i \in 1..n |-> NeutralScore] ELSE scorer.scores

\* _combine_scores with the two weights exchanged
_combine_scores_exchanged(similarity_score, rerank_score) ==
    Max(0, Min(1000,
        (rerank_weight * similarity_score + similarity_weight * Sigmoid(rerank_score)) \div 10))

\* ReRankingService._combine_scores
_combine_scores(similarity_score, rerank_score) ==
    Max(0, Min(1000,
        (similarity_weight * similarity_score + rerank_weight * Sigmoid(rerank_score)) \div 10))

\* The scores rerank_chunks got from _compute_rerank_scores, none when the
\* scorer's values made it raise
RerankScores(n, scorer) ==
    IF scorer.kind = "malformed" THEN <<>> ELSE _compute_rerank_scores(n, scorer)

\* The dicts of a call are objects of a heap, named by their position in it:
\* the chunks handed to rerank_chunks are objects 1..Len(chunks).
\* updated_chunk = chunk without the copy: the same object
AliasDict(heap, ref) == [heap |-> heap, ref |-> ref]

\* chunk.copy(): a new object with the fields of the old one
CopyDict(heap, ref) == [heap |-> Append(heap, heap[ref]), ref |-> Len(heap) + 1]

\* The loop of rerank_chunks over its n chunks: the heap it leaves
RECURSIVE RerankLoop(_, _, _, _)
RerankLoop(heap, n, rerank_scores, i) ==
    IF i > n THEN heap
    ELSE LET updated_chunk == CopyDict(heap, i)
             rerank_score == IF i <= Len(rerank_scores) THEN rerank_scores[i] ELSE 0
             combined == _combine_scores(heap[i].score, rerank_score)
         IN RerankLoop([updated_chunk.heap EXCEPT ![updated_chunk.ref] =
                           [@ EXCEPT !.reranked = TRUE,
                                     !.rerank_score = rerank_score,
                                     !.original_score = heap[i].score,
                                     !.combined_score = combined,
                                     !.score = combined]],
                       n, rerank_scores, i + 1)

\* The list handed to rerank_chunks as the caller finds it after the call
rerank_chunks_input(chunks_in, scorer) ==
    IF chunks_in = <<>> \/ scorer.kind = "malformed" THEN chunks_in
    ELSE SubSeq(RerankLoop(chunks_in, Len(chunks_in),
                           _compute_rerank_scores(Len(chunks_in), scorer), 1),
                1, Len(chunks_in))

\* rerank_chunks without the sort by combined_score (line 128 left out)
rerank_chunks_unsorted(chunks_in, top_k, min_score, scorer) ==
    IF chunks_in = <<>> THEN <<>>
    ELSE IF scorer.kind = "malformed"
    THEN (IF top_k # 0 THEN Take(chunks_in, top_k) ELSE chunks_in)
    ELSE
      LET rerank_scores == _compute_rerank_scores(Len(chunks_in), scorer)
          updated == [i \in 1..Len(chunks_in) |->
              LET rerank_score == IF i <= Len(rerank_scores) THEN rerank_scores[i] ELSE 0
                  combined == _combine_scores(chunks_in[i].score, rerank_score)
              IN [chunks_in[i] EXCEPT !.reranked = TRUE,
                                      !.rerank_score = rerank_score,
                                      !.original_score = chunks_in[i].score,
                                      !.combined_score = combined,
                                      !.score = combined]]
          MeetsMin(c) == c.combined_score >= min_score
          reranked_chunks == SelectSeq(updated, MeetsMin)
      IN IF top_k # 0 THEN Take(reranked_chunks, top_k) ELSE reranked_chunks

\* ReRankingService.rerank_chunks once the model is loaded; top_k = 0 stands
\* for top_k = None.
rerank_chunks(chunks_in, top_k, min_score, scorer) ==
    IF chunks_in = <<>> THEN <<>>
    ELSE IF scorer.kind = "malformed"
    THEN (IF top_k # 0 THEN Take(chunks_in, top_k) ELSE chunks_in)
    ELSE
      LET rerank_scores == _compute_rerank_scores(Len(chunks_in), scorer)
          updated == [i \in 1..Len(chunks_in) |->
              LET rerank_score == IF i <= Len(rerank_scores) THEN rerank_scores[i] ELSE 0
                  combined == _combine_scores(chunks_in[i].score, rerank_score)
              IN [chunks_in[i] EXCEPT !.reranked = TRUE,
                                      !.rerank_score = rerank_score,
                                      !.original_score = chunks_in[i].score,
                                      !.combined_score = combined,
                                      !.score = combined]]
          MeetsMin(c) == c.combined_score >= min_score
          kept == SelectSeq(updated, MeetsMin)
          reranked_chunks == SortDesc(kept, [i \in 1..Len(kept) |-> kept[i].combined_score])
      IN IF top_k # 0 THEN Take(reranked_chunks, top_k) ELSE reranked_chunks

---------------------------------------------------------------------------
(* Retrieval orchestrator: app/services/retrieval_service.py *)

QualityMinLen == 50

DefaultMeta == Meta("regular", FALSE, FALSE, 1000)

\* RetrievalService._process_search_results
_process_search_results(results, k, min_score) ==
    LET n == Min(Len(results.chunks), k)
        built == [i \in 1..n |->
            EnhancedChunk(results.ids[i], results.chunks[i],
                IF i <= Len(results.scores) THEN results.scores[i] ELSE 0,
                IF i <= Len(results.distances) THEN results.distances[i] ELSE 1000,
                IF i <= Len(results.metadata) THEN results.metadata[i] ELSE DefaultMeta)]
        MeetsMin(c) == c.score >= min_score
    IN SelectSeq(built, MeetsMin)

\* RetrievalService._apply_quality_filters
PassesQuality(c) ==
    /\ ~(c.content.len - c.content.pad < QualityMinLen)
    /\ ~(2 * c.content.alpha < c.content.len)

_apply_quality_filters(cs) == SelectSeq(cs, PassesQuality)

IdsOf(cs) == [i \in 1..Len(cs) |-> cs[i].id]

\* One retrieval attempt as the state records it: the arguments of
\* retrieve_relevant_chunks (k, use_reranking, min_score) and of the
\* rerank_chunks call in it (top_k), whether it raised and where (cause), the
\* candidates before re-ranking (pre), what the scorer did and the scores
\* _compute_rerank_scores handed back (rerank_scores), the list of candidates
\* as the caller finds it after rerank_chunks (post), the chunks returned,
\* and the order in which the candidates entered the last sort.
\* An attempt that raised keeps no chunks.
Attempt(k, use_reranking, min_score, top_k, raised, cause, pre, scorer, rerank_scores, post, cs, order) ==
    [k |-> k, use_reranking |-> use_reranking, min_score |-> min_score, top_k |-> top_k,
     raised |-> raised, cause |-> cause, pre |-> pre, scorer |-> scorer,
     rerank_scores |-> rerank_scores, post |-> post, chunks |-> cs, order |-> order]

\* top_chunk.get("combined_score", top_chunk.get("score", 0.0))
ScoreOf(c) == IF c.reranked THEN c.combined_score ELSE c.score

Returned(cs, strategy) == [raised |-> FALSE, chunks |-> cs, strategy |-> strategy]

\* SelectStrategy with the rag branch returning every candidate (no [:k])
SelectStrategyRagUncut(cs, k, confidence_threshold, fallback_threshold) ==
    LET top_score == ScoreOf(cs[1])
    IN IF top_score >= confidence_threshold
       THEN Returned(_apply_quality_filters(<<cs[1]>>), "direct")
       ELSE IF top_score >= fallback_threshold
       THEN Returned(_apply_quality_filters(cs), "rag")
       ELSE Returned(_apply_quality_filters(Take(cs, 2)), "fallback")

\* SelectStrategy with the fallback branch cutting at k instead of 2
SelectStrategyFallbackCutAtK(cs, k, confidence_threshold, fallback_threshold) ==
    LET top_score == ScoreOf(cs[1])
    IN IF top_score >= confidence_threshold
       THEN Returned(_apply_quality_filters(<<cs[1]>>), "direct")
       ELSE IF top_score >= fallback_threshold
       THEN Returned(_apply_quality_filters(Take(cs, k)), "rag")
       ELSE Returned(_apply_quality_filters(Take(cs, k)), "fallback")

\* SelectStrategy with the direct branch taken for a top score above, not
\* at, confidence_threshold
SelectStrategyStrict(cs, k, confidence_threshold, fallback_threshold) ==
    LET top_score == ScoreOf(cs[1])
    IN IF top_score > confidence_threshold
       THEN Returned(_apply_quality_filters(<<cs[1]>>), "direct")
       ELSE IF top_score >= fallback_threshold
       THEN Returned(_apply_quality_filters(Take(cs, k)), "rag")
       ELSE Returned(_apply_quality_filters(Take(cs, 2)), "fallback")

\* retrieve_with_adaptive_pipeline, steps 2 to 4: the strategy and the chunks
\* for a non-empty candidate list
SelectStrategy(cs, k, confidence_threshold, fallback_threshold) ==
    LET top_score == ScoreOf(cs[1])
    IN IF top_score >= confidence_threshold
       THEN Returned(_apply_quality_filters(<<cs[1]>>), "direct")
       ELSE IF top_score >= fallback_threshold
       THEN Returned(_apply_quality_filters(Take(cs, k)), "rag")
       ELSE Returned(_apply_quality_filters(Take(cs, 2)), "fallback")

---------------------------------------------------------------------------
(* Keyword and hybrid search: app/services/vector_service.py *)

MaxKw == 2          \* hits the external index returns for one keyword lookup

KeywordContent == Content(120, 0, 110)

\* The ids of the stored chunks a keyword lookup can hit: the nearest
\* neighbour of the semantic query and two chunks no semantic query returns
KeywordIds == { 1, MaxRaw + 1, MaxRaw + 2 }

\* collection.get(where=..., limit=n): at most n stored chunks, each with its
\* id, no chunk twice.
KeywordHits(n) ==
    { [i \in 1..Len(s) |-> [id |-> s[i], content |-> KeywordContent, metadata |-> DefaultMeta]] :
        s \in { t \in SeqsUpTo(KeywordIds, Min(n, MaxKw)) :
                  \A i, j \in 1..Len(t) : i # j => t[i] # t[j] } }

\* VectorService.search_by_keywords
search_by_keywords(hits) ==
    [chunks |-> [i \in 1..Len(hits) |-> hits[i].content],
     distances |-> [i \in 1..Len(hits) |-> 0],
     metadata |-> [i \in 1..Len(hits) |-> hits[i].metadata],
     ids |-> [i \in 1..Len(hits) |-> hits[i].id],
     scores |-> [i \in 1..Len(hits) |-> 1000]]

\* Python floats are binary floating point: every operation rounds its exact
\* result to the nearest representable value, ties to even.  The hybrid merge
\* is the one score the code does not clamp, so the model keeps its
\* arithmetic, in a narrower format: Precision significant bits (a Python
\* float has 53) on a grid of 2^-FracBits.  A float is the integer number of
\* grid steps.
Precision == 8
FracBits == 12

FloatOne == 2^FracBits

BitLength(n) ==
    LET RECURSIVE Bits(_)
        Bits(m) == IF m = 0 THEN 0 ELSE 1 + Bits(m \div 2)
    IN Bits(n)

\* The float nearest to n / d grid steps
Fl(n, d) ==
    LET step == 2^Max(0, BitLength(n \div d) - Precision)
        q == n \div (d * step)
        r == n % (d * step)
    IN IF 2 * r > d * step \/ (2 * r = d * step /\ q % 2 = 1)
       THEN (q + 1) * step
       ELSE q * step

FlAdd(x, y) == Fl(x + y, 1)
FlMul(x, y) == Fl(x * y, FloatOne)
FlDiv(x, y) == Fl(x * FloatOne, y)

\* The float of a score given in thousandths, of a weight given in hundredths
FloatOfScore(s) == Fl(s * FloatOne, 1000)
FloatOfWeight(w) == Fl(w * FloatOne, 100)

\* The weights a caller passes, in hundredths
Weights == { <<70, 30>>, <<48, 65>>, <<0, 0>> }

\* The weights as the caller passed them, not divided by their sum
UnnormalizedWeights(sw, kw) == <<FloatOfWeight(sw), FloatOfWeight(kw)>>

\* hybrid_search: the weights divided by their sum when it is positive
NormalizedWeights(sw, kw) ==
    LET semantic_weight == FloatOfWeight(sw)
        keyword_weight == FloatOfWeight(kw)
        total_weight == FlAdd(semantic_weight, keyword_weight)
    IN IF total_weight > 0
       THEN <<FlDiv(semantic_weight, total_weight), FlDiv(keyword_weight, total_weight)>>
       ELSE <<semantic_weight, keyword_weight>>

\* semantic_score * semantic_weight + keyword_score * keyword_weight, a float
HybridFinalScore(semantic_score, keyword_score, semantic_weight, keyword_weight) ==
    FlAdd(FlMul(FloatOfScore(semantic_score), semantic_weight),
          FlMul(FloatOfScore(keyword_score), keyword_weight))

\* The entries of combined_scores in insertion order: the semantic results,
\* then the keyword hits no semantic result has the id of
HybridEntries(semantic_results, keyword_results) ==
    LET InKeyword(id) == \E j \in 1..Len(keyword_results.ids) : keyword_results.ids[j] = id
        InSemantic(id) == \E j \in 1..Len(semantic_results.ids) : semantic_results.ids[j] = id
        sem == [i \in 1..Len(semantic_results.ids) |->
                  [id |-> semantic_results.ids[i],
                   semantic_score |-> IF i <= Len(semantic_results.scores)
                                      THEN semantic_results.scores[i] ELSE 500,
                   keyword_score |-> IF InKeyword(semantic_results.ids[i]) THEN 1000 ELSE 0,
                   chunk |-> semantic_results.chunks[i],
                   metadata |-> semantic_results.metadata[i],
                   distance |-> semantic_results.distances[i]]]
        kwAll == [i \in 1..Len(keyword_results.ids) |->
                  [id |-> keyword_results.ids[i],
                   semantic_score |-> 0,
                   keyword_score |-> 1000,
                   chunk |-> keyword_results.chunks[i],
                   metadata |-> keyword_results.metadata[i],
                   distance |-> 1000]]
        OnlyKeyword(e) == ~InSemantic(e.id)
    IN sem \o SelectSeq(kwAll, OnlyKeyword)

\* VectorService._combine_hybrid_results; the scores it returns are floats
_combine_hybrid_results(semantic_results, keyword_results, semantic_weight, keyword_weight, final_k) ==
    LET entries == HybridEntries(semantic_results, keyword_results)
        scored == [i \in 1..Len(entries) |->
                     [id |-> entries[i].id, chunk |-> entries[i].chunk,
                      metadata |-> entries[i].metadata, distance |-> entries[i].distance,
                      semantic_score |-> entries[i].semantic_score,
                      keyword_score |-> entries[i].keyword_score,
                      final_score |-> HybridFinalScore(entries[i].semantic_score,
                                                       entries[i].keyword_score,
                                                       semantic_weight, keyword_weight)]]
        top == Take(SortDesc(scored, [i \in 1..Len(scored) |-> scored[i].final_score]), final_k)
    IN [chunks |-> [i \in 1..Len(top) |-> top[i].chunk],
        distances |-> [i \in 1..Len(top) |-> top[i].distance],
        metadata |-> [i \in 1..Len(top) |-> top[i].metadata],
        ids |-> [i \in 1..Len(top) |-> top[i].id],
        scores |-> [i \in 1..Len(top) |-> top[i].final_score],
        semantic_scores |-> [i \in 1..Len(top) |-> top[i].semantic_score],
        keyword_scores |-> [i \in 1..Len(top) |-> top[i].keyword_score]]

\* VectorService.hybrid_search for what its search_similar_chunks call
\* (k * 2) and its search_by_keywords call returned (no keywords given: no hits)
hybrid_search(semantic_results, keyword_results, k, sw, kw) ==
    LET w == NormalizedWeights(sw, kw)
    IN _combine_hybrid_results(semantic_results, keyword_results, w[1], w[2], KOrDefault(k))

\* The order in which hybrid_search hands the entries to its sort
HybridOrder(semantic_results, keyword_results) ==
    LET e == HybridEntries(semantic_results, keyword_results)
    IN [i \in 1..Len(e) |-> e[i].id]

---------------------------------------------------------------------------
(* The operations callers invoke *)

KArgs == 0..MaxK        \* 0 stands for k = None
TopKArgs == 0..MaxK     \* 0 stands for top_k = None, or for top_k = 0 when top_k_given

Thresholds == { <<800, 300>>, <<0, 0>> }
MinScores == { 0, 600 }

NoArgs ==
    [k |-> 0, top_k_given |-> FALSE, use_reranking |-> FALSE, confidence_threshold |-> 0,
     fallback_threshold |-> 0, min_score |-> 0, weights |-> <<0, 0>>]

Call(op, args) == [op |-> op, args |-> args]

Ret(raised, cs, strategy, results, order) ==
    [raised |-> raised, chunks |-> cs, strategy |-> strategy, results |-> results, order |-> order]

\* What hybrid_search got from search_similar_chunks and search_by_keywords;
\* for search_similar_chunks on its own, every neighbour it scored. n_results
\* is the number of neighbours collection.query was asked for.
Fetched(n_results, semantic_results, keyword_results) ==
    [n_results |-> n_results, semantic_results |-> semantic_results,
     keyword_results |-> keyword_results]

NoFetched == Fetched(0, EmptyResults, EmptyResults)

NoRet == Ret(FALSE, <<>>, "none", EmptyResults, <<>>)
Raise == Ret(TRUE, <<>>, "none", EmptyResults, <<>>)

\* No call is in progress: the model follows one call at a time
Idle == pc = "idle"

\* VectorService.search_similar_chunks, called on its own
SearchSimilarChunks ==
    /\ Idle
    /\ \E k \in KArgs \cup {LargeK} :
        /\ call' = Call("search_similar_chunks", [NoArgs EXCEPT !.k = k])
        /\ \/ ret' = Raise /\ fetched' = NoFetched
           \/ \E raw \in RawResults(SearchFetchSize(k)) \cup LargeIndexResults(SearchFetchSize(k)) :
                /\ ret' = Ret(FALSE, <<>>, "none", search_similar_chunks(raw, k, TRUE), IdsOf(raw))
                \* enhanced_results: every neighbour the index returned, scored
                /\ fetched' = Fetched(SearchFetchSize(k),
                                      _enhance_and_rank_results(raw, Len(raw), TRUE), EmptyResults)
    /\ pc' = "done"
    /\ UNCHANGED <<model, attempts, provider_calls, chunkerVars, serviceVars, documentVars>>

\* VectorService.search_by_keywords, called on its own
SearchByKeywords ==
    /\ Idle
    /\ \E k \in KArgs :
        /\ call' = Call("search_by_keywords", [NoArgs EXCEPT !.k = k])
        /\ \/ ret' = Raise
           \/ \E hits \in KeywordHits(KOrDefault(k)) :
                ret' = Ret(FALSE, <<>>, "none", search_by_keywords(hits), IdsOf(hits))
    /\ pc' = "done"
    /\ UNCHANGED <<model, attempts, fetched, provider_calls, chunkerVars, serviceVars, documentVars>>

\* VectorService.hybrid_search, called on its own
HybridSearch ==
    /\ Idle
    /\ \E k \in KArgs :
        \/ \E w \in Weights :
              /\ call' = Call("hybrid_search", [NoArgs EXCEPT !.k = k, !.weights = w])
              /\ ret' = Raise
              /\ fetched' = NoFetched
        \/ \E raw \in RawResults(SearchFetchSize(KOrDefault(k) * 2)) :
              LET semantic_results == search_similar_chunks(raw, KOrDefault(k) * 2, TRUE)
              IN \E hits \in KeywordHits(KOrDefault(k) * 2) :
                   LET keyword_results == search_by_keywords(hits)
                       order == HybridOrder(semantic_results, keyword_results)
                   IN \E w \in Weights :
                        /\ call' = Call("hybrid_search",
                                        [NoArgs EXCEPT !.k = k, !.weights = w])
                        /\ ret' = Ret(FALSE, <<>>, "none",
                                      hybrid_search(semantic_results, keyword_results,
                                                    k, w[1], w[2]),
                                      order)
                        /\ fetched' = Fetched(SearchFetchSize(KOrDefault(k) * 2), semantic_results, keyword_results)
    /\ pc' = "done"
    /\ UNCHANGED <<model, attempts, provider_calls, chunkerVars, serviceVars, documentVars>>

\* ReRankingService.rerank_chunks, called on its own with a similarity-ranked
\* candidate list: an empty list is returned at once
RerankChunks ==
    /\ Idle
    /\ \E top_k \in TopKArgs, ms \in MinScores, raw \in RawResults(MaxRaw) :
        LET input == _process_search_results(
                         search_similar_chunks(raw, MaxRaw, TRUE), MaxRaw, 0)
        IN /\ \E given \in (IF top_k = 0 THEN BOOLEAN ELSE {TRUE}) :
                call' = Call("rerank_chunks",
                             [NoArgs EXCEPT !.k = top_k, !.top_k_given = given, !.min_score = ms])
           /\ attempts' = <<Attempt(top_k, TRUE, ms, top_k, FALSE, "none", input,
                                    "not_called", <<>>, input, input, IdsOf(input))>>
           /\ pc' = IF input = <<>> THEN "done" ELSE "rerank"
           /\ ret' = IF input = <<>> THEN Ret(FALSE, <<>>, "none", EmptyResults, <<>>) ELSE ret
    /\ UNCHANGED <<model, fetched, provider_calls, chunkerVars, serviceVars, documentVars>>

\* RetrievalService.retrieve_relevant_chunks is entered
RetrieveRelevantChunks ==
    /\ Idle
    /\ \E k \in KArgs, rr \in BOOLEAN, ms \in MinScores :
        call' = Call("retrieve_relevant_chunks",
                     [NoArgs EXCEPT !.k = k, !.use_reranking = rr, !.min_score = ms])
    /\ pc' = "embed"
    /\ UNCHANGED <<model, attempts, ret, fetched, provider_calls, chunkerVars, serviceVars, documentVars>>

\* RetrievalService.retrieve_with_adaptive_pipeline is entered
RetrieveWithAdaptivePipeline ==
    /\ Idle
    /\ \E k \in KArgs, rr \in BOOLEAN, th \in Thresholds :
        call' = Call("retrieve_with_adaptive_pipeline",
                     [NoArgs EXCEPT !.k = k, !.use_reranking = rr,
                                    !.confidence_threshold = th[1],
                                    !.fallback_threshold = th[2]])
    /\ pc' = "embed"
    /\ UNCHANGED <<model, attempts, ret, fetched, provider_calls, chunkerVars, serviceVars, documentVars>>

\* AttemptArgs with the retry repeating the first attempt's arguments
AttemptArgsRetryUnchanged ==
    IF call.op = "retrieve_relevant_chunks"
    THEN [k |-> call.args.k, use_reranking |-> call.args.use_reranking,
          min_score |-> call.args.min_score]
    ELSE [k |-> KOrDefault(call.args.k) * 2, use_reranking |-> call.args.use_reranking,
          min_score |-> 0]

\* The arguments of the retrieve_relevant_chunks call about to be made: the
\* caller's own, or those retrieve_with_adaptive_pipeline passes on its first
\* attempt (k * 2) and on its retry (k, re-ranking off)
AttemptArgs ==
    IF call.op = "retrieve_relevant_chunks"
    THEN [k |-> call.args.k, use_reranking |-> call.args.use_reranking,
          min_score |-> call.args.min_score]
    ELSE IF attempts = <<>>
    THEN [k |-> KOrDefault(call.args.k) * 2, use_reranking |-> call.args.use_reranking,
          min_score |-> 0]
    ELSE [k |-> KOrDefault(call.args.k), use_reranking |-> FALSE, min_score |-> 0]

\* AfterAttempt with every operation raising when its attempt raised
AfterAttemptPropagating(atts) ==
    LET a == atts[Len(atts)]
    IN [pc |-> "done",
        ret |-> IF a.raised THEN Raise
                ELSE Ret(FALSE, a.chunks, "none", EmptyResults, a.order)]

\* What the operation in progress does once an attempt has ended: where it
\* goes on and what it returns.
\*   retrieve_relevant_chunks / rerank_chunks: return the chunks or raise.
\*   retrieve_with_adaptive_pipeline: no candidates, no_answer; candidates,
\*   the strategy the top score selects; first attempt raised, retry; retry
\*   returned, its chunks as fallback; retry raised, no_answer.
AfterAttempt(atts) ==
    LET a == atts[Len(atts)]
    IN IF call.op # "retrieve_with_adaptive_pipeline"
       THEN [pc |-> "done",
             ret |-> IF a.raised THEN Raise
                     ELSE Ret(FALSE, a.chunks, "none", EmptyResults, a.order)]
       ELSE IF Len(atts) = 1
       THEN IF a.raised THEN [pc |-> "embed", ret |-> NoRet]
            ELSE [pc |-> "done",
                  ret |-> IF a.chunks = <<>>
                          THEN Ret(FALSE, <<>>, "no_answer", EmptyResults, a.order)
                          ELSE LET r == SelectStrategy(a.chunks, KOrDefault(call.args.k),
                                                       call.args.confidence_threshold,
                                                       call.args.fallback_threshold)
                               IN Ret(FALSE, r.chunks, r.strategy, EmptyResults, a.order)]
       ELSE [pc |-> "done",
             ret |-> IF a.raised
                     THEN Ret(FALSE, <<>>, "no_answer", EmptyResults, <<>>)
                     ELSE Ret(FALSE, a.chunks, "fallback", EmptyResults, a.order)]

\* tenacity: stop_after_attempt(3) of EmbeddingService.generate_embeddings
stop_after_attempt == 3

\* A retry that gives up one attempt early
RetryStopsEarly(attempt_number) == attempt_number >= stop_after_attempt - 1

\* The retry gives up once the attempt that failed is the last one allowed
RetryStops(attempt_number) == attempt_number >= stop_after_attempt

\* The number of the provider call about to be made: a request that gave up
\* is over, and the next call opens a new request
AttemptNumber == IF RetryStops(provider_calls) THEN 1 ELSE provider_calls + 1

\* retrieve_relevant_chunks asks generate_single_embedding for the query
\* embedding: one call of the embedding provider.  A call that fails is
\* repeated by the retry of generate_embeddings until the retry gives up,
\* which ends the attempt with VectorDatabaseError.
GenerateEmbeddings ==
    /\ pc = "embed"
    /\ LET args == AttemptArgs
           kk == KOrDefault(args.k)
       IN \/ /\ provider_calls' = 0
             /\ pc' = "search"
             /\ UNCHANGED <<attempts, ret>>
          \/ /\ ~RetryStops(AttemptNumber)
             /\ provider_calls' = AttemptNumber
             /\ UNCHANGED <<pc, attempts, ret>>
          \/ /\ RetryStops(AttemptNumber)
             /\ provider_calls' = AttemptNumber
             /\ LET atts == Append(attempts,
                                Attempt(args.k, args.use_reranking, args.min_score, kk,
                                        TRUE, "embedding", <<>>, "not_called", <<>>, <<>>, <<>>, <<>>))
                IN /\ attempts' = atts
                   /\ pc' = AfterAttempt(atts).pc
                   /\ ret' = AfterAttempt(atts).ret
    /\ UNCHANGED <<model, call, fetched, chunkerVars, serviceVars, documentVars>>

\* retrieve_relevant_chunks from the vector search up to the re-ranking:
\* search_similar_chunks and _process_search_results.  The index may raise,
\* which ends the attempt with VectorDatabaseError.
RetrieveSearch ==
    /\ pc = "search"
    /\ LET args == AttemptArgs
           kk == KOrDefault(args.k)
           search_k == IF args.use_reranking THEN kk * 3 ELSE kk * 2
       IN \/ LET atts == Append(attempts,
                               Attempt(args.k, args.use_reranking, args.min_score, kk,
                                       TRUE, "index", <<>>, "not_called", <<>>, <<>>, <<>>, <<>>))
             IN /\ attempts' = atts
                /\ pc' = AfterAttempt(atts).pc
                /\ ret' = AfterAttempt(atts).ret
          \/ \E raw \in RawResults(SearchFetchSize(search_k)) :
               LET enhanced == _process_search_results(
                                   search_similar_chunks(raw, search_k, TRUE),
                                   search_k, args.min_score)
                   rerank == args.use_reranking /\ enhanced # <<>>
                   atts == Append(attempts,
                               Attempt(args.k, args.use_reranking, args.min_score, kk,
                                       FALSE, "none", enhanced, "not_called", <<>>, enhanced, enhanced,
                                       IF rerank THEN IdsOf(enhanced) ELSE IdsOf(raw)))
               IN /\ attempts' = atts
                  /\ pc' = IF rerank THEN "rerank" ELSE AfterAttempt(atts).pc
                  /\ ret' = IF rerank THEN ret ELSE AfterAttempt(atts).ret
    /\ UNCHANGED <<model, call, fetched, provider_calls, chunkerVars, serviceVars, documentVars>>

\* rerank_chunks on the candidates of the attempt in progress: the model is
\* loaded on first use (ReRankingService.initialize), which raises
\* ReRankingError when it fails; then the scorer is asked.
RetrieveRerank ==
    /\ pc = "rerank"
    /\ LET a == attempts[Len(attempts)]
       IN \/ /\ model = "none"
             /\ LET atts == [attempts EXCEPT ![Len(attempts)] =
                                [a EXCEPT !.raised = TRUE, !.cause = "reranker",
                                          !.scorer = "unavailable", !.pre = <<>>,
                                          !.post = <<>>, !.chunks = <<>>]]
                IN /\ attempts' = atts
                   /\ pc' = AfterAttempt(atts).pc
                   /\ ret' = AfterAttempt(atts).ret
             /\ model' = "none"
          \/ \E so \in ScorerOutcomes(Len(a.pre)) :
                LET atts == [attempts EXCEPT ![Len(attempts)] =
                                [a EXCEPT !.scorer = so.kind,
                                          !.rerank_scores = RerankScores(Len(a.pre), so),
                                          !.post = rerank_chunks_input(a.pre, so),
                                          !.chunks = rerank_chunks(a.pre, a.top_k,
                                                                   a.min_score, so)]]
                IN /\ attempts' = atts
                   /\ pc' = AfterAttempt(atts).pc
                   /\ ret' = AfterAttempt(atts).ret
                   /\ model' = "loaded"
    /\ UNCHANGED <<call, fetched, provider_calls, chunkerVars, serviceVars, documentVars>>

---------------------------------------------------------------------------
(* MetricsService: the bounded history of retrievals and its aggregates     *)
(* Scores are in thousandths, the clock and the time windows in hours; a    *)
(* float that is the quotient of two integers is kept as the reduced        *)
(* fraction <<numerator, denominator>>.                                     *)

MaxCapacity == 2
MaxCalls == 3
MaxTime == 2
MaxTasks == 2

default_max_history_size == 1000

\* The float n / d
Quotient(n, d) ==
    LET RECURSIVE Gcd(_, _)
        Gcd(a, b) == IF b = 0 THEN a ELSE Gcd(b, a % b)
        g == Gcd(n, d)
    IN <<n \div g, d \div g>>

\* The float 0.0
Zero == <<0, 1>>

\* A context chunk as record_retrieval reads it
ContextChunk(score) == [score |-> score]

\* chunk.get('combined_score', chunk.get('score', 0.0)) of every chunk
ChunkScores(cs) == [i \in 1..Len(cs) |-> cs[i].score]

SeqMax(s) ==
    LET RECURSIVE MaxFrom(_)
        MaxFrom(i) == IF i = Len(s) THEN s[i] ELSE Max(s[i], MaxFrom(i + 1))
    IN MaxFrom(1)

\* dataclass RetrievalMetrics as record_retrieval builds it
RetrievalMetrics(query, strategy, cs, response_time_ms, reranking_enabled, now) ==
    LET scores == ChunkScores(cs)
    IN [query |-> query,
        strategy |-> strategy,
        chunks_retrieved |-> Len(cs),
        top_score |-> IF scores # <<>> THEN SeqMax(scores) ELSE 0,
        avg_score |-> IF scores # <<>> THEN Quotient(SeqSum(scores), Len(scores)) ELSE Zero,
        response_time_ms |-> response_time_ms,
        reranking_enabled |-> reranking_enabled,
        timestamp |-> now]

\* A deque that keeps every item
DequeAppendUnbounded(d, maxlen, x) == Append(d, x)

\* deque(maxlen=...).append: a full deque drops its oldest item
DequeAppend(d, maxlen, x) ==
    IF maxlen = 0 THEN d
    ELSE IF Len(d) = maxlen THEN Tail(d) \o <<x>>
    ELSE Append(d, x)

\* MetricsService.record_retrieval: the history after the call
record_retrieval(history, maxlen, query, strategy, cs, response_time_ms, reranking_enabled, now) ==
    DequeAppend(history, maxlen,
                RetrievalMetrics(query, strategy, cs, response_time_ms, reranking_enabled, now))

\* recent_metrics: the records of the last `hours` hours
RecentMetrics(history, hours, now) ==
    SelectSeq(history, LAMBDA m : m.timestamp >= now - hours)

QualityMetrics(avg_confidence_score, high, medium, low, no_answer, avg_sources_used) ==
    [avg_confidence_score |-> avg_confidence_score,
     high_confidence_rate |-> high,
     medium_confidence_rate |-> medium,
     low_confidence_rate |-> low,
     no_answer_rate |-> no_answer,
     avg_sources_used |-> avg_sources_used]

\* The QualityMetrics of an empty window, also returned when the computation fails
ZeroQualityMetrics == QualityMetrics(Zero, Zero, Zero, Zero, Zero, Zero)

\* get_quality_metrics failing whenever there is a record to aggregate
get_quality_metrics_failed(history, hours, now) == ZeroQualityMetrics

\* MetricsService.get_quality_metrics
get_quality_metrics(history, hours, now) ==
    LET recent_metrics == RecentMetrics(history, hours, now)
        scores == [i \in 1..Len(recent_metrics) |-> recent_metrics[i].top_score]
        total == Len(scores)
        high_confidence == Cardinality({ i \in 1..total : scores[i] >= 800 })
        medium_confidence == Cardinality({ i \in 1..total : 500 <= scores[i] /\ scores[i] < 800 })
        low_confidence == Cardinality({ i \in 1..total : 300 <= scores[i] /\ scores[i] < 500 })
        no_answer == Cardinality({ i \in 1..total : scores[i] < 300 })
        sources == [i \in 1..Len(recent_metrics) |-> recent_metrics[i].chunks_retrieved]
    IN IF recent_metrics = <<>> THEN ZeroQualityMetrics
       ELSE QualityMetrics(Quotient(SeqSum(scores), total),
                           Quotient(high_confidence, total),
                           Quotient(medium_confidence, total),
                           Quotient(low_confidence, total),
                           Quotient(no_answer, total),
                           Quotient(SeqSum(sources), total))

PerformanceMetrics(avg_retrieval_time_ms, total_requests, success_rate, strategy_distribution) ==
    [avg_retrieval_time_ms |-> avg_retrieval_time_ms,
     avg_reranking_time_ms |-> Zero,
     avg_generation_time_ms |-> Zero,
     total_requests |-> total_requests,
     success_rate |-> success_rate,
     strategy_distribution |-> strategy_distribution]

\* The PerformanceMetrics of an empty window, also returned when the computation fails
ZeroPerformanceMetrics == PerformanceMetrics(Zero, 0, Zero, <<>>)

\* MetricsService.get_performance_metrics
get_performance_metrics(history, hours, now) ==
    LET recent_metrics == RecentMetrics(history, hours, now)
        n == Len(recent_metrics)
        times == [i \in 1..n |-> recent_metrics[i].response_time_ms]
        strategies == { recent_metrics[i].strategy : i \in 1..n }
        successful_requests == Cardinality({ i \in 1..n : recent_metrics[i].chunks_retrieved > 0 })
    IN IF recent_metrics = <<>> THEN ZeroPerformanceMetrics
       ELSE PerformanceMetrics(
                Quotient(SeqSum(times), n),
                n,
                Quotient(successful_requests, n),
                [s \in strategies |->
                    Cardinality({ i \in 1..n : recent_metrics[i].strategy = s })])

---------------------------------------------------------------------------
(* The requests served on the event loop: chat messages, which end with a   *)
(* record_retrieval call, and metrics reads. A handler runs without         *)
(* interruption from one await to the next.                                 *)

Tasks == 1..MaxTasks

\* The hours arguments of the metrics reads
Hours == { 1, 24 }

\* The hours the clock advances by in one step
TickHours == 2

\* Settings.enable_reranking
enable_reranking == TRUE

\* Messages as sequences of characters
Messages == { <<>>, <<" ">>, <<" ", "\t">>, <<"h", "i">>, <<" ", "?">> }

Whitespace == { " ", "\t", "\n" }

\* not message.strip()
MessageIsBlank(message) == \A i \in 1..Len(message) : message[i] \in Whitespace

\* What ChatService._retrieve_context hands back with its time in ms: the
\* result of retrieve_with_adaptive_pipeline called with both thresholds 0.0
RetrievalOutcomes ==
    { [chunks |-> <<>>, strategy |-> "no_answer", time_ms |-> 5],
      [chunks |-> <<ContextChunk(900)>>, strategy |-> "direct", time_ms |-> 20],
      [chunks |-> <<ContextChunk(200)>>, strategy |-> "direct", time_ms |-> 20],
      [chunks |-> <<ContextChunk(400), ContextChunk(200)>>, strategy |-> "fallback", time_ms |-> 40] }

NoOutcome == [chunks |-> <<>>, strategy |-> "none", time_ms |-> 0]

\* A chat request: where its handler stands, its message, what the retrieval
\* handed back, the I/O it has done, and the error it raised
Task(at, message, outcome, io, error) ==
    [pc |-> at, message |-> message, outcome |-> outcome, io |-> io, error |-> error]

NoTask == Task("idle", <<>>, NoOutcome, {}, "none")

\* What a metrics read returned
Metrics(op, hours, result) == [op |-> op, hours |-> hours, result |-> result]

NoMetrics == Metrics("none", 0, "none")

\* A MetricsService as the module creates it, no read made and no request
\* A document as the model follows it: the status column of its row, whether
\* its file is on disk, and the text of the file
Document(status, file_exists, text) == [status |-> status, file_exists |-> file_exists, text |-> text]

NoDocument == Document("none", FALSE, <<>>)

\* No document has been uploaded
DocumentIdle ==
    /\ document = NoDocument
    /\ vector_index = {}
    /\ processing = <<>>

ServiceIdle ==
    /\ max_history_size = default_max_history_size
    /\ retrieval_history = <<>>
    /\ utcnow = 0
    /\ calls = 0
    /\ metrics = NoMetrics
    /\ task = [t \in Tasks |-> NoTask]

---------------------------------------------------------------------------
\* The caller takes the result; a loaded cross-encoder stays loaded
Complete ==
    /\ pc = "done"
    /\ call' = Call("none", NoArgs)
    /\ pc' = "idle"
    /\ attempts' = <<>>
    /\ ret' = NoRet
    /\ fetched' = NoFetched
    /\ provider_calls' = 0
    /\ UNCHANGED <<model, chunkerVars, serviceVars, documentVars>>

RetrievalIdle ==
    /\ model = "none"
    /\ call = Call("none", NoArgs)
    /\ pc = "idle"
    /\ attempts = <<>>
    /\ ret = NoRet
    /\ fetched = NoFetched
    /\ provider_calls = 0

InitRetrieval ==
    /\ text_content = <<>>
    /\ chunks = <<>>
    /\ chunked = FALSE
    /\ RetrievalIdle
    /\ ServiceIdle
    /\ DocumentIdle

NextRetrieval ==
    \/ SearchSimilarChunks
    \/ SearchByKeywords
    \/ HybridSearch
    \/ RerankChunks
    \/ RetrieveRelevantChunks
    \/ RetrieveWithAdaptivePipeline
    \/ GenerateEmbeddings
    \/ RetrieveSearch
    \/ RetrieveRerank
    \/ Complete

SpecRetrieval == InitRetrieval /\ [][NextRetrieval]_vars

---------------------------------------------------------------------------
(* chunk_document applied to a text *)

ChunkDocument ==
    /\ ~chunked
    /\ chunks' = chunk_document(text_content)
    /\ chunked' = TRUE
    /\ UNCHANGED <<text_content, retrievalVars, serviceVars, documentVars>>

InitChunker ==
    /\ text_content \in Texts
    /\ chunks = <<>>
    /\ chunked = FALSE
    /\ RetrievalIdle
    /\ ServiceIdle
    /\ DocumentIdle

NextChunker == ChunkDocument

SpecChunker == InitChunker /\ [][NextChunker]_vars

---------------------------------------------------------------------------
(* MetricsService used by concurrent requests. record_retrieval and the     *)
(* get_..._metrics methods contain no await, and their callers (the chat    *)
(* handler and the metrics endpoints) are coroutines of one event loop:     *)
(* each call runs from its first to its last statement without another      *)
(* request running in between.                                              *)

\* A chat request is accepted and awaits its I/O (session, retrieval, model)
ChatMessageInFlight(t) ==
    /\ task[t].pc = "idle"
    /\ calls + Cardinality({ u \in Tasks : task[u].pc # "idle" }) < MaxCalls
    /\ task' = [task EXCEPT ![t].pc = "awaiting"]
    /\ UNCHANGED <<max_history_size, retrieval_history, utcnow, calls, metrics,
                   chunkerVars, retrievalVars, documentVars>>

\* The last await of a chat request is over: the handler calls
\* metrics_service.record_retrieval with what its retrieval gave and returns
RecordRetrieval(t) ==
    /\ task[t].pc = "awaiting"
    /\ \E o \in RetrievalOutcomes :
        retrieval_history' = record_retrieval(retrieval_history, max_history_size, calls + 1,
                                              o.strategy, o.chunks, o.time_ms,
                                              enable_reranking, utcnow)
    /\ calls' = calls + 1
    /\ task' = [task EXCEPT ![t] = NoTask]
    /\ UNCHANGED <<max_history_size, utcnow, metrics, chunkerVars, retrievalVars, documentVars>>

\* GET /metrics/quality: MetricsService.get_quality_metrics
GetQualityMetrics ==
    /\ \E hours \in Hours :
        metrics' = Metrics("get_quality_metrics", hours,
                           get_quality_metrics(retrieval_history, hours, utcnow))
    /\ UNCHANGED <<max_history_size, retrieval_history, utcnow, calls, task,
                   chunkerVars, retrievalVars, documentVars>>

\* GET /metrics/performance: MetricsService.get_performance_metrics
GetPerformanceMetrics ==
    /\ \E hours \in Hours :
        metrics' = Metrics("get_performance_metrics", hours,
                           get_performance_metrics(retrieval_history, hours, utcnow))
    /\ UNCHANGED <<max_history_size, retrieval_history, utcnow, calls, task,
                   chunkerVars, retrievalVars, documentVars>>

\* Time passes
Tick ==
    /\ utcnow + TickHours <= MaxTime
    /\ utcnow' = utcnow + TickHours
    /\ UNCHANGED <<max_history_size, retrieval_history, calls, metrics, task,
                   chunkerVars, retrievalVars, documentVars>>

\* MetricsService(max_history_size) with an empty history
InitMetrics ==
    /\ text_content = <<>>
    /\ chunks = <<>>
    /\ chunked = FALSE
    /\ RetrievalIdle
    /\ max_history_size \in 0..MaxCapacity
    /\ retrieval_history = <<>>
    /\ utcnow = 0
    /\ calls = 0
    /\ metrics = NoMetrics
    /\ task = [t \in Tasks |-> NoTask]
    /\ DocumentIdle

NextMetrics ==
    \/ \E t \in Tasks : ChatMessageInFlight(t)
    \/ \E t \in Tasks : RecordRetrieval(t)
    \/ GetQualityMetrics
    \/ GetPerformanceMetrics
    \/ Tick

SpecMetrics == InitMetrics /\ [][NextMetrics]_vars

---------------------------------------------------------------------------
(* ChatService.process_chat_message, one request at a time and one step     *)
(* per await; task[t].io collects the I/O the request has done.             *)

MaxRequests == 2

\* process_chat_message is entered: the message is validated before the
\* first await, and the exception of an empty message is caught by the
\* handler's own except clause, which raises ChatError in its place
ProcessChatMessage(t) ==
    /\ \A u \in Tasks : task[u].pc = "idle"
    /\ calls < MaxRequests
    /\ \E message \in Messages :
        task' = [task EXCEPT ![t] =
                    IF MessageIsBlank(message)
                    THEN Task("raised", message, NoOutcome, {}, "ChatError")
                    ELSE Task("_get_or_create_session", message, NoOutcome, {}, "none")]
    /\ UNCHANGED <<max_history_size, retrieval_history, utcnow, calls, metrics,
                   chunkerVars, retrievalVars, documentVars>>

\* _get_or_create_session returns, or the database raises: no chat_session
\* is bound yet, so no error message is saved
GetOrCreateSession(t) ==
    /\ task[t].pc = "_get_or_create_session"
    /\ \/ task' = [task EXCEPT ![t].pc = "_save_user_message",
                               ![t].io = @ \cup {"_get_or_create_session"}]
       \/ task' = [task EXCEPT ![t].pc = "raised",
                               ![t].io = @ \cup {"_get_or_create_session"},
                               ![t].error = "ChatError"]
    /\ UNCHANGED <<max_history_size, retrieval_history, utcnow, calls, metrics,
                   chunkerVars, retrievalVars, documentVars>>

SaveUserMessage(t) ==
    /\ task[t].pc = "_save_user_message"
    /\ task' = [task EXCEPT ![t].pc = "_retrieve_context",
                            ![t].io = @ \cup {"_save_user_message"}]
    /\ UNCHANGED <<max_history_size, retrieval_history, utcnow, calls, metrics,
                   chunkerVars, retrievalVars, documentVars>>

RetrieveContext(t) ==
    /\ task[t].pc = "_retrieve_context"
    /\ \E o \in RetrievalOutcomes :
        task' = [task EXCEPT ![t].pc = "_get_chat_history",
                             ![t].outcome = o,
                             ![t].io = @ \cup {"_retrieve_context"}]
    /\ UNCHANGED <<max_history_size, retrieval_history, utcnow, calls, metrics,
                   chunkerVars, retrievalVars, documentVars>>

GetChatHistory(t) ==
    /\ task[t].pc = "_get_chat_history"
    /\ task' = [task EXCEPT ![t].pc = "_generate_ai_response",
                            ![t].io = @ \cup {"_get_chat_history"}]
    /\ UNCHANGED <<max_history_size, retrieval_history, utcnow, calls, metrics,
                   chunkerVars, retrievalVars, documentVars>>

\* _generate_ai_response: no provider call for the no_answer strategy; when
\* the provider keeps failing the handler saves an error message and raises
GenerateAiResponse(t) ==
    /\ task[t].pc = "_generate_ai_response"
    /\ IF task[t].outcome.strategy = "no_answer"
       THEN task' = [task EXCEPT ![t].pc = "_save_ai_message"]
       ELSE \/ task' = [task EXCEPT ![t].pc = "_save_ai_message",
                                    ![t].io = @ \cup {"chat.completions.create"}]
            \/ task' = [task EXCEPT ![t].pc = "raised",
                                    ![t].io = @ \cup {"chat.completions.create",
                                                      "_save_error_message"},
                                    ![t].error = "ChatError"]
    /\ UNCHANGED <<max_history_size, retrieval_history, utcnow, calls, metrics,
                   chunkerVars, retrievalVars, documentVars>>

SaveAiMessage(t) ==
    /\ task[t].pc = "_save_ai_message"
    /\ task' = [task EXCEPT ![t].pc = "_update_session_stats",
                            ![t].io = @ \cup {"_save_ai_message"}]
    /\ UNCHANGED <<max_history_size, retrieval_history, utcnow, calls, metrics,
                   chunkerVars, retrievalVars, documentVars>>

\* _update_session_stats returns; the handler records the retrieval and
\* returns its response
UpdateSessionStats(t) ==
    /\ task[t].pc = "_update_session_stats"
    /\ retrieval_history' = record_retrieval(retrieval_history, max_history_size,
                                             task[t].message, task[t].outcome.strategy,
                                             task[t].outcome.chunks, task[t].outcome.time_ms,
                                             enable_reranking, utcnow)
    /\ calls' = calls + 1
    /\ task' = [task EXCEPT ![t].pc = "done",
                            ![t].io = @ \cup {"_update_session_stats", "record_retrieval"}]
    /\ UNCHANGED <<max_history_size, utcnow, metrics, chunkerVars, retrievalVars, documentVars>>

\* The caller has the response or the exception
Respond(t) ==
    /\ task[t].pc \in {"done", "raised"}
    /\ task' = [task EXCEPT ![t] = NoTask]
    /\ UNCHANGED <<max_history_size, retrieval_history, utcnow, calls, metrics,
                   chunkerVars, retrievalVars, documentVars>>

InitChat ==
    /\ text_content = <<>>
    /\ chunks = <<>>
    /\ chunked = FALSE
    /\ RetrievalIdle
    /\ ServiceIdle
    /\ DocumentIdle

NextChat ==
    \/ \E t \in Tasks : ProcessChatMessage(t)
    \/ \E t \in Tasks : GetOrCreateSession(t)
    \/ \E t \in Tasks : SaveUserMessage(t)
    \/ \E t \in Tasks : RetrieveContext(t)
    \/ \E t \in Tasks : GetChatHistory(t)
    \/ \E t \in Tasks : GenerateAiResponse(t)
    \/ \E t \in Tasks : SaveAiMessage(t)
    \/ \E t \in Tasks : UpdateSessionStats(t)
    \/ \E t \in Tasks : Respond(t)

SpecChat == InitChat /\ [][NextChat]_vars

---------------------------------------------------------------------------
(* Document processing: app/services/document_service.py.  The background   *)
(* task that process_uploaded_file and reprocess_document create runs on    *)
(* the event loop of the request handlers: it gives way to them only where  *)
(* it awaits the database, the file or the embedding provider, so each      *)
(* action below runs the code from one such await to the next.  The calls   *)
(* of the vector index contain no await once the collection is open.  The   *)
(* database is taken to answer every statement; the embedding provider and  *)
(* the vector index can fail.                                               *)

MaxProcessing == 2      \* background processing tasks created for the document

max_chunks_per_document == 100

\* The texts of the uploaded file
DocumentTexts ==
    { <<>>,
      <<BlankLine, BlankLine>>,
      <<TextLine("Q", "?", 13), TextLine("R", "x", 10)>>,
      <<TextLine("x", "x", 60), TextLine("x", "x", 60)>>,
      <<TextLine("x", "x", 30)>> }

\* not text_content.strip()
TextIsBlank(text) == \A i \in 1..Len(text) : ~NonBlank(text[i])

\* What a step of the task hands on: a value, or the exception it raised
Created(raised, error, cs) == [raised |-> raised, error |-> error, chunks |-> cs]

\* _create_chunks without its own test of the text
_create_chunks_unchecked(text) ==
    Created(FALSE, "none", Take(chunk_document(text), max_chunks_per_document))

\* DocumentProcessor._create_chunks
_create_chunks(text) ==
    IF TextIsBlank(text)
    THEN Created(TRUE, "DocumentProcessingError", <<>>)
    ELSE Created(FALSE, "none", Take(chunk_document(text), max_chunks_per_document))

\* A background task: where it stands, the text it extracted, the number of
\* chunks it created, and the exception its handler caught
Processing(at, text, chunk_count, error) ==
    [pc |-> at, text |-> text, chunk_count |-> chunk_count, error |-> error]

NewProcessing == Processing("created", <<>>, 0, "none")

ProcessingTasks == 1..Len(processing)

\* The except clause of _process_document_async: mark_processing_failed and
\* the commit, after which the task ends
ProcessingFailed(t, error) ==
    /\ document' = [document EXCEPT !.status = "failed"]
    /\ processing' = [processing EXCEPT ![t] = Processing("ended", @.text, @.chunk_count, error)]
    /\ UNCHANGED vector_index

\* db_session.get, mark_processing_started, commit
MarkProcessingStarted(t) ==
    /\ processing[t].pc = "created"
    /\ document' = [document EXCEPT !.status = "processing"]
    /\ processing' = [processing EXCEPT ![t].pc = "started"]
    /\ UNCHANGED <<vector_index, chunkerVars, retrievalVars, serviceVars>>

\* _extract_text: the file is read, or it is no longer on disk
ExtractText(t) ==
    /\ processing[t].pc = "started"
    /\ IF document.file_exists
       THEN /\ processing' = [processing EXCEPT ![t] = Processing("extracted", document.text, 0, "none")]
            /\ UNCHANGED <<document, vector_index>>
       ELSE ProcessingFailed(t, "DocumentProcessingError")
    /\ UNCHANGED <<chunkerVars, retrievalVars, serviceVars>>

\* _update_document_metadata, _create_chunks, _generate_embeddings
CreateChunks(t) ==
    /\ processing[t].pc = "extracted"
    /\ LET created == _create_chunks(processing[t].text)
       IN IF created.raised
          THEN ProcessingFailed(t, created.error)
          ELSE \/ /\ processing' = [processing EXCEPT ![t] =
                                       Processing("embedded", @.text, Len(created.chunks), "none")]
                  /\ UNCHANGED <<document, vector_index>>
               \/ ProcessingFailed(t, "EmbeddingError")
    /\ UNCHANGED <<chunkerVars, retrievalVars, serviceVars>>

\* _store_vectors, _save_chunks and its commit
StoreVectors(t) ==
    /\ processing[t].pc = "embedded"
    /\ \/ /\ vector_index' = vector_index \cup (1..processing[t].chunk_count)
          /\ processing' = [processing EXCEPT ![t].pc = "saved"]
          /\ UNCHANGED document
       \/ ProcessingFailed(t, "VectorDatabaseError")
    /\ UNCHANGED <<chunkerVars, retrievalVars, serviceVars>>

\* mark_processing_completed and the commit, after which the task ends
MarkProcessingCompleted(t) ==
    /\ processing[t].pc = "saved"
    /\ document' = [document EXCEPT !.status = "processed"]
    /\ processing' = [processing EXCEPT ![t].pc = "ended"]
    /\ UNCHANGED <<vector_index, chunkerVars, retrievalVars, serviceVars>>

\* DocumentService.delete_document: once db_session.get has answered, the
\* chunks leave the index, the file is unlinked and the status is committed
DeleteDocument ==
    /\ vector_index' = {}
    /\ document' = [document EXCEPT !.status = "deleted", !.file_exists = FALSE]
    /\ UNCHANGED <<processing, chunkerVars, retrievalVars, serviceVars>>

\* DocumentService.reprocess_document
ReprocessDocument ==
    /\ Len(processing) < MaxProcessing
    /\ document' = [document EXCEPT !.status = "uploaded"]
    /\ processing' = Append(processing, NewProcessing)
    /\ UNCHANGED <<vector_index, chunkerVars, retrievalVars, serviceVars>>

\* The state process_uploaded_file leaves: the file saved, the row committed
\* with status uploaded, the background task created
InitDocuments ==
    /\ text_content = <<>>
    /\ chunks = <<>>
    /\ chunked = FALSE
    /\ RetrievalIdle
    /\ ServiceIdle
    /\ document \in { Document("uploaded", TRUE, text) : text \in DocumentTexts }
    /\ vector_index = {}
    /\ processing = <<NewProcessing>>

NextDocuments ==
    \/ \E t \in ProcessingTasks : MarkProcessingStarted(t)
    \/ \E t \in ProcessingTasks : ExtractText(t)
    \/ \E t \in ProcessingTasks : CreateChunks(t)
    \/ \E t \in ProcessingTasks : StoreVectors(t)
    \/ \E t \in ProcessingTasks : MarkProcessingCompleted(t)
    \/ DeleteDocument
    \/ ReprocessDocument

SpecDocuments == InitDocuments /\ [][NextDocuments]_vars

---------------------------------------------------------------------------
(* Properties of retrieve_with_adaptive_pipeline *)

AdaptiveDone == pc = "done" /\ call.op = "retrieve_with_adaptive_pipeline"

RequestedK == KOrDefault(call.args.k)

\* The first attempt returned candidates, whose top one the pipeline evaluates
HasTopCandidate ==
    AdaptiveDone /\ ~attempts[1].raised /\ attempts[1].chunks # <<>>

TopCandidate == attempts[1].chunks[1]
TopScore == ScoreOf(TopCandidate)

\* C1: a call whose top candidate has a combined score at or above
\* confidence_threshold returns strategy direct and exactly the top candidate.
C1_DirectReturnsTopChunk ==
    (HasTopCandidate /\ TopScore >= call.args.confidence_threshold)
        => (ret.strategy = "direct" /\ ret.chunks = <<TopCandidate>>)

C4_EmptyCandidatesNoAnswer ==
    (AdaptiveDone /\ ~attempts[Len(attempts)].raised /\ attempts[Len(attempts)].chunks = <<>>)
        => (ret.strategy = "no_answer" /\ ret.chunks = <<>>)

\* C5: a first attempt that raises is followed by exactly one more attempt,
\* with re-ranking off and a smaller k; if that one raises too the call
\* returns ([], no_answer); the call never raises.
C5_RetryOnceThenNoAnswer ==
    AdaptiveDone =>
        /\ ~ret.raised
        /\ IF attempts[1].raised
           THEN /\ Len(attempts) = 2
                /\ ~attempts[2].use_reranking
                /\ KOrDefault(attempts[2].k) < KOrDefault(attempts[1].k)
                /\ attempts[2].raised => (ret.chunks = <<>> /\ ret.strategy = "no_answer")
           ELSE Len(attempts) = 1

C5_Witness ==
    /\ AdaptiveDone
    /\ attempts[1].raised
    /\ Len(attempts) = 2
    /\ attempts[2].raised
    /\ ret.strategy = "no_answer"

---------------------------------------------------------------------------
(* Properties of the re-ranker *)

\* chunks[:top_k] if top_k else chunks
TakeOrAll(cs, top_k) == IF top_k # 0 THEN Take(cs, top_k) ELSE cs

RerankEnded ==
    /\ pc = "done"
    /\ call.op \in {"rerank_chunks", "retrieve_relevant_chunks"}
    /\ attempts # <<>>

\* C6: when the scorer raises while scoring, rerank_chunks returns the input
\* chunks in their order and with their scores, cut to top_k when given.
C6_ScorerErrorReturnsInput ==
    \A i \in 1..Len(attempts) :
        (pc = "done" /\ attempts[i].scorer = "raised")
            => attempts[i].chunks = TakeOrAll(attempts[i].pre, attempts[i].top_k)

\* C7: when the cross-encoder cannot be initialized, rerank_chunks raises
\* nothing and retrieve_relevant_chunks with use_reranking=True returns the
\* candidates in their un-reranked order.
C7_UnavailableScorerNeverFails ==
    (RerankEnded /\ attempts[1].scorer = "unavailable")
        => (/\ ~ret.raised
            /\ IdsOf(ret.chunks) = TakeOrAll(attempts[1].order, attempts[1].top_k))

---------------------------------------------------------------------------
(* Properties of every returned ranking *)

\* The scores and ids of what the call returned, in order
ReturnedScores ==
    IF call.op \in {"search_similar_chunks", "search_by_keywords", "hybrid_search"}
    THEN ret.results.scores
    ELSE [i \in 1..Len(ret.chunks) |-> ScoreOf(ret.chunks[i])]

ReturnedIds ==
    IF call.op \in {"search_similar_chunks", "search_by_keywords", "hybrid_search"}
    THEN ret.results.ids
    ELSE IdsOf(ret.chunks)

\* 1.0 in the unit of the scores the call returns: hybrid_search returns
\* floats, the other operations thousandths
ScoreOne == IF call.op = "hybrid_search" THEN FloatOne ELSE 1000

InUnit(x) == 0 <= x /\ x <= ScoreOne

\* C8: every chunk any retrieval path returns (semantic search, re-ranking,
\* hybrid merge with non-negative weights, keyword lookup, adaptive pipeline)
\* carries a score in [0, 1].
C8_ScoresInUnitInterval ==
    pc = "done" =>
        /\ \A i \in 1..Len(ReturnedScores) : InUnit(ReturnedScores[i])
        /\ \A i \in 1..Len(ret.chunks) :
              InUnit(ret.chunks[i].score) /\ InUnit(ret.chunks[i].combined_score)

PositionIn(order, id) == CHOOSE i \in 1..Len(order) : order[i] = id

\* C9: every returned ranking is ordered by non-increasing score, and results
\* of equal score keep the order they had going into the sort.
C9_SortedDescendingStable ==
    pc = "done" =>
        \A i, j \in 1..Len(ReturnedScores) :
            i < j =>
                /\ ReturnedScores[i] >= ReturnedScores[j]
                /\ ReturnedScores[i] = ReturnedScores[j]
                      => PositionIn(ret.order, ReturnedIds[i]) < PositionIn(ret.order, ReturnedIds[j])

C9_Witness ==
    /\ pc = "done"
    /\ call.op = "retrieve_relevant_chunks"
    /\ attempts[1].scorer = "scores"
    /\ \E i, j \in 1..Len(ReturnedScores) : i < j /\ ReturnedScores[i] = ReturnedScores[j]
    /\ IdsOf(ret.chunks) # attempts[1].order

---------------------------------------------------------------------------
(* Properties of the chunker *)

\* C10: a text with at least two question-pattern lines and at least two
\* answer-pattern lines takes the Q&A path and yields a qa_pair chunk.
C10_QaTextYieldsQaPair ==
    (chunked /\ question_count(text_content) >= 2 /\ answer_count(text_content) >= 2)
        => (/\ _has_qa_format(text_content)
            /\ \E i \in 1..Len(chunks) : chunks[i].chunk_type = "qa_pair")

\* C11: for a text made of the delimiter, one question line and then its
\* answer line ("---QA---", "Q: What is X?", "R: X is Y."), chunk_document
\* returns exactly one chunk, a qa_pair holding both lines: the pair pending
\* at the end of the input is flushed.
C11_DelimitedPairIsOneQaChunk ==
    \A q, a \in Lines :
        (/\ chunked
         /\ text_content = <<DelimLine, q, a>>
         /\ _is_question_line(q)
         /\ _is_answer_line(a) /\ ~_is_question_line(a))
            => chunks = <<Chunk("qa_pair", <<q, a>>, q.len + 1 + a.len)>>

C11_Witness ==
    /\ chunked
    /\ text_content = <<DelimLine, TextLine("Q", "?", 13), TextLine("R", "x", 10)>>
    /\ Len(chunks) = 1
    /\ chunks[1].chunk_type = "qa_pair"
    /\ chunks[1].lines = <<TextLine("Q", "?", 13), TextLine("R", "x", 10)>>

\* C12: every chunk chunk_document returns that is shorter than
\* min_chunk_size is a complete Q&A pair; on the regular path and on the Q&A
\* path (header chunks and standalone lines included) no other chunk shorter
\* than the minimum is returned.
C12_ShortChunksAreQaPairs ==
    chunked =>
        \A i \in 1..Len(chunks) :
            chunks[i].length < min_chunk_size => chunks[i].chunk_type = "qa_pair"

---------------------------------------------------------------------------
(* Properties of hybrid_search *)

HybridDone == pc = "done" /\ call.op = "hybrid_search" /\ ~ret.raised

SeqRange(s) == { s[i] : i \in 1..Len(s) }

\* The score a result list gives the id, 0 when the list does not hold it
ScoreIn(results, id) ==
    IF id \in SeqRange(results.ids)
    THEN results.scores[CHOOSE i \in 1..Len(results.ids) : results.ids[i] = id]
    ELSE 0

HybridUnion == SeqRange(fetched.semantic_results.ids) \cup SeqRange(fetched.keyword_results.ids)

\* For every id of the union, sw * semantic_score + kw * keyword_score with
\* the weights of the call divided by their sum, in the float arithmetic of
\* the code
WeightedScore ==
    LET total == FlAdd(FloatOfWeight(call.args.weights[1]), FloatOfWeight(call.args.weights[2]))
        sw == FlDiv(FloatOfWeight(call.args.weights[1]), total)
        kw == FlDiv(FloatOfWeight(call.args.weights[2]), total)
    IN [id \in HybridUnion |->
           FlAdd(FlMul(FloatOfScore(ScoreIn(fetched.semantic_results, id)), sw),
                 FlMul(FloatOfScore(ScoreIn(fetched.keyword_results, id)), kw))]

\* C13: hybrid_search scores every id of the union of the semantic and the
\* keyword results sw * semantic_score + kw * keyword_score, with the given
\* weights divided by their sum; an id only one path found has 0 on the other
\* axis and stays a candidate up to the final sort and the cut to k; with the
\* weights 0.7 and 0.3 a chunk only the keyword path found has the score 0.3.
C13_HybridScoreIsWeightedSum ==
    (HybridDone /\ call.args.weights[1] + call.args.weights[2] > 0) =>
        LET returned == ret.results.ids
            expected == WeightedScore
        IN /\ SeqRange(ret.order) = HybridUnion
           /\ Len(returned) = Min(KOrDefault(call.args.k), Cardinality(HybridUnion))
           /\ \A i \in 1..Len(returned) :
                /\ returned[i] \in HybridUnion
                /\ ret.results.scores[i] = expected[returned[i]]
                /\ \A id \in HybridUnion \ SeqRange(returned) :
                      expected[id] <= ret.results.scores[i]
                /\ (/\ call.args.weights = <<70, 30>>
                    /\ returned[i] \notin SeqRange(fetched.semantic_results.ids))
                       => ret.results.scores[i] = FloatOfWeight(30)

C13_Witness ==
    /\ HybridDone
    /\ call.args.weights = <<70, 30>>
    /\ \E i, j \in 1..Len(ret.results.ids) :
         /\ ret.results.ids[i] \notin SeqRange(fetched.semantic_results.ids)
         /\ ret.results.scores[i] = FloatOfWeight(30)
         /\ ret.results.ids[j] \in SeqRange(fetched.semantic_results.ids)
         /\ ret.results.ids[j] \notin SeqRange(fetched.keyword_results.ids)
         /\ ret.results.scores[j] > 0

---------------------------------------------------------------------------
(* Properties of MetricsService *)

\* A metrics read has just returned
QualityRead == metrics' # metrics /\ metrics'.op = "get_quality_metrics"
PerformanceRead == metrics' # metrics /\ metrics'.op = "get_performance_metrics"

\* The records of the history that are inside the window of the read
InWindow(hours) ==
    { i \in 1..Len(retrieval_history) : retrieval_history[i].timestamp >= utcnow - hours }

\* C14: the no_answer_rate get_quality_metrics returns is the number of
\* events of the time window recorded with the strategy no_answer, divided by
\* the number of events of the window, whatever the scores of the events.
C14_NoAnswerRateCountsStrategy ==
    [][QualityRead =>
        LET window == InWindow(metrics'.hours)
            no_answer == { i \in window : retrieval_history[i].strategy = "no_answer" }
        IN window # {} =>
             metrics'.result.no_answer_rate
                 = Quotient(Cardinality(no_answer), Cardinality(window))]_vars

\* C15: after n record_retrieval calls on a MetricsService of capacity C
\* the history holds exactly min(n, C) records, those of the most recent
\* calls in the order of the calls (the n-th call passes the query n): the
\* oldest record is evicted first and the length never exceeds C.
C15_HistoryHoldsMostRecent ==
    LET n == Len(retrieval_history)
    IN /\ n = Min(calls, max_history_size)
       /\ n <= max_history_size
       /\ \A i \in 1..n : retrieval_history[i].query = calls - n + i

C15_Witness ==
    /\ max_history_size = 2
    /\ calls = 3
    /\ Len(retrieval_history) = 2
    /\ retrieval_history[1].query = 2
    /\ retrieval_history[2].query = 3

\* The sum of a field over the records of the window
WindowSum(hours, value) ==
    SeqSum([i \in 1..Len(retrieval_history) |->
               IF i \in InWindow(hours) THEN value[i] ELSE 0])

\* The number of records of the window a rate stands for
RateCount(rate, total) == rate[1] * (total \div rate[2])

\* C16: under any interleaving of the requests that append with
\* record_retrieval and of the reads get_performance_metrics and
\* get_quality_metrics on the shared history, an append keeps every record
\* but the one it evicts from a full history and adds its own, the history
\* never holds more than its capacity, and a read returns the aggregate of
\* the history as it is during the read: never a failed or zeroed result.
C16_AppendsAndReadsAreAtomic ==
    [][LET old == Len(retrieval_history)
           new == Len(retrieval_history')
           window == InWindow(metrics'.hours)
           total == Cardinality(window)
       IN /\ new <= max_history_size
          /\ calls' # calls =>
                /\ new = Min(old + 1, max_history_size)
                /\ \A i \in 1..(new - 1) :
                      retrieval_history'[i] = retrieval_history[i + (old + 1 - new)]
                /\ new > 0 => retrieval_history'[new].query = calls'
          /\ (QualityRead /\ window # {}) =>
                /\ metrics'.result.avg_confidence_score
                      = Quotient(WindowSum(metrics'.hours,
                                           [i \in 1..old |-> retrieval_history[i].top_score]),
                                 total)
                /\ metrics'.result.avg_sources_used
                      = Quotient(WindowSum(metrics'.hours,
                                           [i \in 1..old |-> retrieval_history[i].chunks_retrieved]),
                                 total)
                /\ RateCount(metrics'.result.high_confidence_rate, total)
                     + RateCount(metrics'.result.medium_confidence_rate, total)
                     + RateCount(metrics'.result.low_confidence_rate, total)
                     + RateCount(metrics'.result.no_answer_rate, total) = total
          /\ (PerformanceRead /\ window # {}) =>
                /\ metrics'.result.total_requests = total
                /\ metrics'.result.avg_retrieval_time_ms
                      = Quotient(WindowSum(metrics'.hours,
                                           [i \in 1..old |-> retrieval_history[i].response_time_ms]),
                                 total)]_vars

\* A read counted one record while a chat request was in flight, and the
\* record of that request was appended after the read
C16_Witness ==
    /\ metrics.op = "get_performance_metrics"
    /\ metrics.hours = 24
    /\ metrics.result.total_requests = 1
    /\ Len(retrieval_history) = 2
    /\ calls = 2
    /\ \E t \in Tasks : task[t].pc = "awaiting"

---------------------------------------------------------------------------
(* Properties of the error paths of the retrieval *)

RetrievalDone == pc = "done" /\ call.op \in {"retrieve_relevant_chunks", "retrieve_with_adaptive_pipeline"}

\* The vector store query of the first attempt raised
IndexRaised == attempts # <<>> /\ attempts[1].raised /\ attempts[1].cause = "index"

\* C17: when the vector store query raises, retrieve_relevant_chunks and
\* retrieve_with_adaptive_pipeline both end with an error, not with a
\* degraded or empty result.
C17_IndexFailureEndsWithError ==
    (RetrievalDone /\ IndexRaised) => ret.raised

\* C17, amended: when the vector store query raises,
\* retrieve_relevant_chunks ends with an error;
\* retrieve_with_adaptive_pipeline does not: it calls
\* retrieve_relevant_chunks once more and returns the chunks of that call as
\* fallback, or no chunks and no_answer when that call raises too.
C17_IndexFailureRaisesOrDegrades ==
    (RetrievalDone /\ IndexRaised) =>
        IF call.op = "retrieve_relevant_chunks"
        THEN ret.raised /\ Len(attempts) = 1
        ELSE /\ ~ret.raised
             /\ Len(attempts) = 2
             /\ IF attempts[2].raised
                THEN ret.strategy = "no_answer" /\ ret.chunks = <<>>
                ELSE ret.strategy = "fallback" /\ ret.chunks = attempts[2].chunks

C17_Witness ==
    /\ pc = "done"
    /\ call.op = "retrieve_with_adaptive_pipeline"
    /\ IndexRaised
    /\ Len(attempts) = 2
    /\ ~attempts[2].raised
    /\ ~ret.raised
    /\ ret.strategy = "fallback"
    /\ ret.chunks # <<>>

\* Every retrieve_relevant_chunks call of the operation ended because the
\* embedding provider kept failing
EmbeddingFailed(atts) ==
    /\ atts # <<>>
    /\ \A i \in 1..Len(atts) : atts[i].raised /\ atts[i].cause = "embedding"

\* C18: a failing embedding provider is called up to 3 times for one
\* generate_embeddings request and not more: the request gives up with its
\* third failed call; once the provider has failed every request of
\* retrieve_with_adaptive_pipeline, the pipeline returns no_answer with no
\* chunks instead of propagating the error.
C18_EmbeddingRetriedThenNoAnswer ==
    [][/\ provider_calls' <= 3
       /\ (/\ Len(attempts') = Len(attempts) + 1
           /\ attempts'[Len(attempts')].cause = "embedding")
             => provider_calls = 2 /\ provider_calls' = 3
       /\ (/\ pc # "done" /\ pc' = "done"
           /\ call.op = "retrieve_with_adaptive_pipeline"
           /\ EmbeddingFailed(attempts'))
             => /\ ~ret'.raised
                /\ ret'.strategy = "no_answer"
                /\ ret'.chunks = <<>>]_vars

C18_Witness ==
    /\ pc = "done"
    /\ call.op = "retrieve_with_adaptive_pipeline"
    /\ Len(attempts) = 2
    /\ EmbeddingFailed(attempts)
    /\ provider_calls = 3
    /\ ~ret.raised
    /\ ret.strategy = "no_answer"
    /\ ret.chunks = <<>>

---------------------------------------------------------------------------
(* Properties of process_chat_message *)

\* C19: process_chat_message called with an empty or whitespace-only message
\* is rejected with ValidationError, raised to the caller before any I/O: no
\* user, session or message row, no retrieval, no provider call, no metric.
C19_BlankMessageRaisesValidationError ==
    \A t \in Tasks :
        (task[t].pc = "raised" /\ MessageIsBlank(task[t].message)) =>
            /\ task[t].error = "ValidationError"
            /\ task[t].io = {}

---------------------------------------------------------------------------
(* Properties of the quality filters *)

\* s is t with some of its elements removed
IsSubsequence(s, t) ==
    LET RECURSIVE Embeds(_, _)
        Embeds(i, j) ==
            IF i > Len(s) THEN TRUE
            ELSE IF j > Len(t) THEN FALSE
            ELSE IF s[i] = t[j] THEN Embeds(i + 1, j + 1)
            ELSE Embeds(i, j + 1)
    IN Embeds(1, 1)

\* C20: every chunk retrieve_with_adaptive_pipeline returns, on every path,
\* passes the quality filters (a content of at least 50 characters, of which
\* at least half are letters or spaces); the filters only remove chunks of
\* the candidates, they add none and keep the order.
C20_ReturnedChunksPassQualityFilters ==
    (pc = "done" /\ call.op = "retrieve_with_adaptive_pipeline" /\ ~ret.raised) =>
        /\ \A i \in 1..Len(ret.chunks) :
              /\ ret.chunks[i].content.len >= 50
              /\ 2 * ret.chunks[i].content.alpha >= ret.chunks[i].content.len
        /\ IsSubsequence(ret.chunks, attempts[Len(attempts)].chunks)

---------------------------------------------------------------------------
(* Properties of search_similar_chunks *)

SimilarDone == pc = "done" /\ call.op = "search_similar_chunks" /\ ~ret.raised

\* k = min(k or default_retrieval_k, max_retrieval_k) of the call
CappedK == Min(KOrDefault(call.args.k), max_retrieval_k)

\* The returned arrays have n entries each, and they are the n
\* highest-scoring of the neighbours the call scored
ReturnsTop(n) ==
    LET r == ret.results
        scored == fetched.semantic_results
    IN /\ Len(r.ids) = n
       /\ Len(r.chunks) = n /\ Len(r.distances) = n
       /\ Len(r.metadata) = n /\ Len(r.scores) = n
       /\ \A i \in 1..n :
            /\ r.ids[i] \in SeqRange(scored.ids)
            /\ r.scores[i] = ScoreIn(scored, r.ids[i])
            /\ \A id \in SeqRange(scored.ids) \ SeqRange(r.ids) :
                  ScoreIn(scored, id) <= r.scores[i]

\* C21 as stated: search_similar_chunks called with k returns at most k
\* results, its result arrays all have the same length, and the results are
\* the k highest-scoring of the neighbours it scored (all of them when there
\* are fewer than k).
C21_SimilarReturnsTopK ==
    SimilarDone =>
        /\ Len(ret.results.ids) <= KOrDefault(call.args.k)
        /\ ReturnsTop(Min(KOrDefault(call.args.k), Len(fetched.semantic_results.ids)))

\* C21 amended: search_similar_chunks called with k returns at most
\* min(k, max_retrieval_k) results, its result arrays all have the same
\* length, and the results are the min(k, max_retrieval_k) highest-scoring of
\* the neighbours it scored.
C21_SimilarReturnsTopCappedK ==
    SimilarDone =>
        /\ Len(ret.results.ids) <= CappedK
        /\ ReturnsTop(Min(CappedK, Len(fetched.semantic_results.ids)))

C21_Witness ==
    /\ SimilarDone
    /\ call.args.k > max_retrieval_k
    /\ Len(ret.results.ids) = max_retrieval_k
    /\ \E id \in SeqRange(fetched.semantic_results.ids) \ SeqRange(ret.results.ids) :
          ScoreIn(fetched.semantic_results, id) < ret.results.scores[max_retrieval_k]

\* C25 as stated: for every requested k, search_similar_chunks asks the index
\* for exactly 3*k neighbours and cuts the re-scored list to that same k.
C25_OverfetchesThreeTimesK ==
    SimilarDone =>
        /\ fetched.n_results = 3 * KOrDefault(call.args.k)
        /\ Len(ret.results.ids) = Min(KOrDefault(call.args.k), Len(fetched.semantic_results.ids))

\* C25 amended: with k capped at max_retrieval_k, search_similar_chunks asks
\* the index for min(3*k, 50) neighbours and cuts the re-scored list to the
\* capped k.
C25_OverfetchesThreeTimesCappedK ==
    SimilarDone =>
        /\ fetched.n_results = Min(3 * CappedK, MaxSearchK)
        /\ Len(ret.results.ids) = Min(CappedK, Len(fetched.semantic_results.ids))

C25_Witness ==
    /\ SimilarDone
    /\ call.args.k > max_retrieval_k
    /\ fetched.n_results = 3 * max_retrieval_k
    /\ Len(fetched.semantic_results.ids) > max_retrieval_k
    /\ Len(ret.results.ids) = max_retrieval_k

---------------------------------------------------------------------------
(* Properties of document processing *)

\* C22: a document whose text is empty or whitespace only is rejected by the
\* chunking step with a DocumentProcessingError that the task catches: the
\* step yields no chunks, ends the task, leaves the document in status
\* failed, and no chunk of the document is ever in the vector index.
C22_BlankTextFailsDocument ==
    [][ /\ TextIsBlank(document.text) => vector_index' = {}
        /\ \A t \in ProcessingTasks :
             ( /\ processing[t].pc = "extracted"
               /\ TextIsBlank(processing[t].text)
               /\ processing'[t] # processing[t] )
             => /\ processing'[t].pc = "ended"
                /\ processing'[t].error = "DocumentProcessingError"
                /\ processing'[t].chunk_count = 0
                /\ document'.status = "failed" ]_vars

C22_Witness ==
    /\ document.text = <<BlankLine, BlankLine>>
    /\ document.file_exists
    /\ document.status = "failed"
    /\ vector_index = {}
    /\ \E t \in ProcessingTasks :
         /\ processing[t].pc = "ended"
         /\ processing[t].text = document.text
         /\ processing[t].error = "DocumentProcessingError"

\* The moves of the status column the processing pipeline is meant to make;
\* delete_document may mark any document deleted, and reprocess_document
\* restarts one that was processed or failed
StatusMoves ==
    { <<"uploaded", "processing">>, <<"processing", "processed">>, <<"processing", "failed">>,
      <<"processed", "uploaded">>, <<"failed", "uploaded">> }

AllProcessingEnded == \A t \in ProcessingTasks : processing[t].pc = "ended"

\* C30: under any interleaving of the background task with delete_document
\* and reprocess_document, the status only moves uploaded -> processing ->
\* processed or failed; a deleted document stays deleted and has no chunk in
\* the vector index; and once the tasks have ended the document is not left
\* in status processing.
C30_DeletedStaysDeleted ==
    [][ /\ \/ document'.status = document.status
           \/ document'.status = "deleted"
           \/ <<document.status, document'.status>> \in StatusMoves
        /\ document.status = "deleted" => document'.status = "deleted"
        /\ document'.status = "deleted" => vector_index' = {}
        /\ AllProcessingEnded' => document'.status # "processing" ]_vars

---------------------------------------------------------------------------
(* Properties of rerank_chunks *)

\* Attempt i went through the loop of rerank_chunks to its return statement
RerankSucceeded(i) ==
    /\ pc = "done"
    /\ i \in 1..Len(attempts)
    /\ attempts[i].scorer \in {"scores", "raised"}

\* top_k was given to the rerank_chunks call of attempt i
TopKGiven(i) == IF call.op = "rerank_chunks" THEN call.args.top_k_given ELSE TRUE

\* similarity_weight * original_score + rerank_weight * normalized_rerank for
\* candidate j of attempt i
WeightedCombination(i, j) ==
    (similarity_weight * attempts[i].pre[j].score
        + rerank_weight * Sigmoid(attempts[i].rerank_scores[j])) \div 10

\* The candidates of attempt i whose combination meets min_score
MetMinScore(i) ==
    { j \in 1..Len(attempts[i].pre) : WeightedCombination(i, j) >= attempts[i].min_score }

\* The returned chunks of attempt i are n candidates that met min_score, each
\* with its combination as score, in descending order, and no candidate that
\* met min_score and was left out scores higher than a returned one
ReturnsBestReranked(i, n) ==
    LET returned == attempts[i].chunks
        pre == attempts[i].pre
    IN /\ Len(returned) = n
       /\ \A r \in 1..n :
            /\ \E j \in MetMinScore(i) :
                 /\ returned[r].id = pre[j].id
                 /\ returned[r].combined_score = WeightedCombination(i, j)
                 /\ returned[r].original_score = pre[j].score
            /\ returned[r].combined_score >= attempts[i].min_score
            /\ \A q \in 1..n : r < q => returned[r].combined_score >= returned[q].combined_score
            /\ \A j \in MetMinScore(i) :
                 (\A q \in 1..n : returned[q].id # pre[j].id)
                     => WeightedCombination(i, j) <= returned[r].combined_score

RerankReturned(i) ==
    /\ pc = "done"
    /\ i \in 1..Len(attempts)
    /\ attempts[i].scorer \in {"scores", "raised", "malformed"}

\* C28: rerank_chunks never mutates its input: after the call, on the
\* success path and on the failure path alike, the list the caller handed in
\* has the same chunks in the same order with the same field values; the
\* re-ranked chunks are copies that carry the new scores.
C28_RerankLeavesInputUnchanged ==
    \A i \in 1..Len(attempts) :
        RerankReturned(i) =>
            /\ attempts[i].post = attempts[i].pre
            /\ \A j \in 1..Len(attempts[i].post) : ~attempts[i].post[j].reranked
            /\ RerankSucceeded(i) => \A r \in 1..Len(attempts[i].chunks) : attempts[i].chunks[r].reranked

C28_Witness ==
    /\ RerankSucceeded(1)
    /\ attempts[1].post = attempts[1].pre
    /\ \E r \in 1..Len(attempts[1].chunks), j \in 1..Len(attempts[1].post) :
         /\ attempts[1].chunks[r].id = attempts[1].post[j].id
         /\ attempts[1].chunks[r].score # attempts[1].post[j].score

---------------------------------------------------------------------------
(* Properties of the scan of a Q&A section *)

PlainLine(line) == NonBlank(line) /\ line.kind = "text" /\ ~_is_question_line(line) /\ ~_is_answer_line(line)
AnswerOnlyLine(line) == _is_answer_line(line) /\ ~_is_question_line(line)

\* C24: in a Q&A section a question line starts a pair, answer-pattern lines
\* begin or extend its answer, and the pair is flushed as one qa_pair chunk
\* with the question and every answer line seen since it; a line matching
\* neither pattern extends the open answer, and with no pair open it becomes
\* a standalone chunk exactly when it is longer than 50 characters.
C24_QaPairHoldsEveryAnswerLine ==
    \A q, a, b \in Lines :
        (chunked /\ _is_question_line(q) /\ AnswerOnlyLine(a)) =>
            /\ (text_content = <<DelimLine, q, a, b>> /\ AnswerOnlyLine(b))
                   => chunks = <<Chunk("qa_pair", <<q, a, b>>, q.len + 1 + a.len + 1 + b.len)>>
            /\ (text_content = <<DelimLine, q, a, b>> /\ PlainLine(b))
                   => chunks = <<Chunk("qa_pair", <<q, a, b>>, q.len + 1 + a.len + 1 + b.len)>>
            /\ (text_content = <<DelimLine, b>> /\ PlainLine(b))
                   => chunks = IF b.len > StandaloneMinLen
                               THEN <<Chunk("regular", <<b>>, b.len)>>
                               ELSE <<>>

---------------------------------------------------------------------------
(* Properties of retrieve_relevant_chunks *)

\* C26: retrieve_relevant_chunks called with k returns at most k chunks, with
\* use_reranking on and with use_reranking off.
C26_RetrieveReturnsAtMostK ==
    (pc = "done" /\ call.op = "retrieve_relevant_chunks" /\ ~ret.raised)
        => Len(ret.chunks) <= KOrDefault(call.args.k)

\* C27: retrieve_with_adaptive_pipeline returns an empty chunk list if and
\* only if the strategy it returns is no_answer.
C27_EmptyIffNoAnswer ==
    AdaptiveDone => (ret.chunks = <<>> <=> ret.strategy = "no_answer")

---------------------------------------------------------------------------
(* Properties of the retrieval made by process_chat_message *)

\* A finished call of the adaptive pipeline with the arguments
\* ChatService._retrieve_context passes: both thresholds 0.0, re-ranking off,
\* k = max_context_chunks
ChatRetrievalDone ==
    /\ AdaptiveDone
    /\ call.args.confidence_threshold = 0
    /\ call.args.fallback_threshold = 0
    /\ ~call.args.use_reranking

====
